---- MODULE Spec2Model ----
(***************************************************************************)
(* Stacks Boost lending pool (stackslend) and its collaborators.           *)
(* The pool contract is the Clarity source carried in                      *)
(* src/stackboost-contract/tests/mock-sbtc-token.test.ts, lines 146-614.   *)
(* Every public function is one atomic transaction.  A transaction that    *)
(* returns (err ...) or aborts at run time is rolled back by the Clarity   *)
(* VM, so it leaves the chain state as it was.  What a call returns and    *)
(* the steps it executes are functions of the state and the arguments      *)
(* (RetOf, TraceOf of the function's steps).                               *)
(***************************************************************************)
EXTENDS Integers, Sequences, FiniteSets, TLC

\* ------------------------------------------------------------ bounds
\* STX held by wallet_1 at genesis, sBTC minted to wallet_2.
InitStx == 3
InitSbtc == 2
\* Deposits are explored while total-stx-deposits stays within this.
MaxTotalDeposits == 4
\* The accrual engine is run at times of up to this many years.
MaxYears == 4
\* The pool's STX where withdrawals are run against accrued yield.
MaxPoolStx == 3

\* ------------------------------------------------- program constants
ERR_STX_TRANSFER == 1
ERR_INVALID_WITHDRAW_AMOUNT == 100
ERR_EXCEEDED_MAX_BORROW == 101
ERR_CANNOT_BE_LIQUIDATED == 102
ERR_INVALID_SBTC_CONTRACT == 105
ERR_UNAUTHORIZED == 107
ERR_PAUSED == 108
ERR_INVALID_BORROW_AMOUNT == 109
ERR_INVALID_LIQUIDATION == 110
ERR_INVALID_DEPOSIT_AMOUNT == 111
ERR_INSUFFICIENT_LIQUIDITY == 112
ERR_INVALID_PRICE == 113

LTV_PERCENTAGE == 70
INTEREST_RATE_PERCENTAGE == 10
LIQUIDATION_THRESHOLD_PERCENTAGE == 100
LIQUIDATION_PENALTY_PERCENTAGE == 10
ONE_YEAR_IN_SECS == 31556952
DEFAULT_ADMIN == "SP1G4Z-admin"
DEFAULT_SBTC_TOKEN == "mock-sbtc-token-v2"

\* ------------------------------------------------------- principals
Wallets == {"wallet_1", "wallet_2"}
Pool == "stackslend"
Callers == Wallets \cup {DEFAULT_ADMIN}
\* the account that deploys the collateral token
Deployer == "deployer"
Principals == Callers \cup {Pool, Deployer}

\* ----------------------------------------------- inputs of the calls
AmountChoices == {0, 1, 2}
CollateralChoices == {0, 1}
PriceChoices == {0, 2, 3}
AdminChoices == {DEFAULT_ADMIN}
TokenChoices == {DEFAULT_SBTC_TOKEN}
ParamChoices ==
  { <<70, 10, 100, 10>>, <<90, 100, 150, 30>>,
    <<91, 10, 100, 10>>, <<70, 101, 100, 10>>,
    <<70, 10, 151, 10>>, <<70, 10, 100, 31>> }

VARIABLES
  total_sbtc_collateral, total_stx_deposits, total_stx_borrows,
  last_interest_accrual, cumulative_yield_bips,
  admin, paused,
  ltv_percentage, interest_rate_percentage,
  liquidation_threshold_percentage, liquidation_penalty_percentage,
  sbtc_token,
  collateral, deposits, borrows,
  stx, sbtc, price,
  token_admin, sbtc_supply,
  rateLimit, now,
  events, inbox, response

aggVars == <<total_sbtc_collateral, total_stx_deposits, total_stx_borrows,
             last_interest_accrual, cumulative_yield_bips>>
cfgVars == <<admin, paused, ltv_percentage, interest_rate_percentage,
             liquidation_threshold_percentage, liquidation_penalty_percentage,
             sbtc_token>>
mapVars == <<collateral, deposits, borrows>>
balVars == <<stx, sbtc>>
\* the collateral token's admin and supply; the rate limiter's map and clock
tokenVars == <<token_admin, sbtc_supply>>
limiterVars == <<rateLimit, now>>
\* the chainhook event store, the webhook request in flight and the last
\* response of the chainhook routes
hookVars == <<events, inbox, response>>
vars == <<aggVars, cfgVars, mapVars, balVars, price, tokenVars, limiterVars, hookVars>>

\* no chainhook route has answered yet
NoResponse == [route |-> "none", ok |-> TRUE, status |-> 0, events |-> << >>]

\* ------------------------------------------------- Clarity responses
Ok == [kind |-> "ok", code |-> 0]
Err(n) == [kind |-> "err", code |-> n]
Panic == [kind |-> "panic", code |-> 0]

\* One executed step of a public function: an asserts!/unwrap! ("check"),
\* the call of accrue-interest ("accrue"), an asset transfer ("transfer"),
\* or a map-set/map-delete/var-set ("write").  pass is whether the step
\* went through; ret is the response the transaction ends with when not.
Step(name, kind, pass, ret) ==
  [name |-> name, kind |-> kind, pass |-> pass, ret |-> ret]

\* Index of the first step that does not pass, 0 when all pass.
FirstFail(steps) ==
  IF \A i \in 1..Len(steps) : steps[i].pass THEN 0
  ELSE CHOOSE i \in 1..Len(steps) :
         /\ ~steps[i].pass
         /\ \A j \in 1..(i - 1) : steps[j].pass

RetOf(steps) ==
  IF FirstFail(steps) = 0 THEN Ok ELSE steps[FirstFail(steps)].ret

\* The steps executed, the failing one included, as <<name, kind>> pairs.
TraceOf(steps) ==
  LET n == IF FirstFail(steps) = 0 THEN Len(steps) ELSE FirstFail(steps)
  IN  [i \in 1..n |-> <<steps[i].name, steps[i].kind>>]

Succeeds(steps) == \A i \in 1..Len(steps) : steps[i].pass

\* ----------------------------------------------------------- maps
MapSet(m, k, v) == [x \in DOMAIN m \cup {k} |-> IF x = k THEN v ELSE m[x]]
\* map-delete that leaves the entry in the map
MapDeleteKeeps(m, k) == m

MapDelete(m, k) == [x \in DOMAIN m \ {k} |-> m[x]]
Has(m, k) == k \in DOMAIN m

\* (default-to u0 (get amount (map-get? m {user: k})))
AmountOf(m, k) == IF Has(m, k) THEN m[k].amount ELSE 0
YieldIndexOf(k) == IF Has(deposits, k) THEN deposits[k].yield_index ELSE 0

\* --------------------------------------------------- asset transfers
\* stx-transfer? / ft-transfer?: fails on a zero amount, on sender =
\* recipient and on an insufficient balance, and then moves nothing.
TransferOk(bal, amount, from, to) ==
  /\ amount > 0
  /\ from # to
  /\ bal[from] >= amount

Transfer(bal, amount, from, to) ==
  [bal EXCEPT ![from] = @ - amount, ![to] = @ + amount]

\* ----------------------------------------------------------- time
\* a clock that reads one year
GetCurrentTimeYear == ONE_YEAR_IN_SECS

\* get-current-time
GetCurrentTime == 0

\* calculate-interest: (ok interest); the uint subtraction of dt aborts
\* the transaction when last-accrued is in the future.
CalculateInterestOk(lastAccrued) == GetCurrentTime >= lastAccrued

CalculateInterest(principal, lastAccrued) ==
  LET dt == GetCurrentTime - lastAccrued
  IN  IF dt > 0
      THEN (principal * (interest_rate_percentage * dt))
             \div (ONE_YEAR_IN_SECS * 100)
      ELSE 0

\* floor((x * dt) / (ONE_YEAR_IN_SECS * 100)), the quotient of
\* accrue-interest, taken in parts: with dt = q * ONE_YEAR_IN_SECS + m it
\* equals floor((x * q + floor((x * m) / ONE_YEAR_IN_SECS)) / 100), which
\* stays within the 32-bit integers of the model checker where the product
\* x * dt and the denominator do not (Clarity's uint has 128 bits).
InterestQuotient(x, dt) ==
  LET q == dt \div ONE_YEAR_IN_SECS
      m == dt % ONE_YEAR_IN_SECS
  IN  ((x * q) + ((x * m) \div ONE_YEAR_IN_SECS)) \div 100

\* interest of accrue-interest computed with the default rate instead of
\* the rate set by set-params
AccrualInterestDefaultRate(totalBorrows, dt) ==
  InterestQuotient(totalBorrows * INTEREST_RATE_PERCENTAGE, dt)

\* interest of accrue-interest
AccrualInterest(totalBorrows, dt) ==
  InterestQuotient(totalBorrows * interest_rate_percentage, dt)

\* new-yield not divided among the deposits
NewYieldUndivided(interest, totalDeposits) == interest * 10000

\* new-yield of accrue-interest
NewYield(interest, totalDeposits) ==
  IF totalDeposits > 0 THEN (interest * 10000) \div totalDeposits ELSE 0

\* accrue-interest storing the new yield instead of adding it to the index
NewCumulativeYieldOverwrite(yieldBips, newYield) == newYield

\* cumulative-yield-bips written by accrue-interest
NewCumulativeYield(yieldBips, newYield) == yieldBips + newYield

\* accrue-interest leaving last-interest-accrual as it was after it has
\* added the interest
NewLastAccrualStale(currentTime, lastAccrual) == lastAccrual

\* last-interest-accrual written by accrue-interest when time has passed
NewLastAccrual(currentTime, lastAccrual) == currentTime

\* accrue-interest: the values it leaves in last-interest-accrual,
\* total-stx-borrows and cumulative-yield-bips when current-time is
\* currentTime and the three hold lastAccrual, totalBorrows and yieldBips.
\* The uint subtraction of dt aborts when the last accrual is in the future.
AccrueInterestOkAt(currentTime, lastAccrual) ==
  lastAccrual = 0 \/ currentTime >= lastAccrual

AccrueInterestAt(currentTime, lastAccrual, totalBorrows, yieldBips) ==
  LET same == [last_interest_accrual |-> lastAccrual,
               total_stx_borrows |-> totalBorrows,
               cumulative_yield_bips |-> yieldBips]
  IN  IF lastAccrual = 0
      THEN [same EXCEPT !.last_interest_accrual = currentTime]
      ELSE LET dt == currentTime - lastAccrual
           IN  IF dt > 0
               THEN LET interest == AccrualInterest(totalBorrows, dt)
                        newYield == NewYield(interest, total_stx_deposits)
                    IN  [last_interest_accrual |->
                           NewLastAccrual(currentTime, lastAccrual),
                         total_stx_borrows |-> totalBorrows + interest,
                         cumulative_yield_bips |->
                           NewCumulativeYield(yieldBips, newYield)]
               ELSE same

\* accrue-interest as the public functions call it: current-time is
\* (get-current-time).
AccrueInterestOk == AccrueInterestOkAt(GetCurrentTime, last_interest_accrual)

AccrueInterest ==
  AccrueInterestAt(GetCurrentTime, last_interest_accrual, total_stx_borrows,
                   cumulative_yield_bips)

\* get-pending-yield against a given value of cumulative-yield-bips.
PendingYieldOk(user, index) == index >= YieldIndexOf(user)

PendingYield(user, index) ==
  (AmountOf(deposits, user) * (index - YieldIndexOf(user))) \div 10000

\* get-debt
GetDebt(user) ==
  AmountOf(borrows, user)
    + CalculateInterest(AmountOf(borrows, user),
                        IF Has(borrows, user) THEN borrows[user].last_accrued
                        ELSE GetCurrentTime)

\* get-collateral
GetCollateral(user) == AmountOf(collateral, user)

\* ------------------------------------------------------------ pause
\* the pause test passing whatever the flag
PoolActiveAlways == TRUE

\* (asserts! (is-eq (var-get paused) false) ERR_PAUSED)
PoolActive == paused = FALSE

\* -------------------------------------------------------------- Init
Init ==
  /\ total_sbtc_collateral = 0
  /\ total_stx_deposits = 0
  /\ total_stx_borrows = 0
  /\ last_interest_accrual = 0
  /\ cumulative_yield_bips = 0
  /\ admin = DEFAULT_ADMIN
  /\ paused = FALSE
  /\ ltv_percentage = LTV_PERCENTAGE
  /\ interest_rate_percentage = INTEREST_RATE_PERCENTAGE
  /\ liquidation_threshold_percentage = LIQUIDATION_THRESHOLD_PERCENTAGE
  /\ liquidation_penalty_percentage = LIQUIDATION_PENALTY_PERCENTAGE
  /\ sbtc_token = DEFAULT_SBTC_TOKEN
  /\ collateral = << >>
  /\ deposits = << >>
  /\ borrows = << >>
  /\ stx = [p \in Principals |-> IF p = "wallet_1" THEN InitStx ELSE 0]
  /\ sbtc = [p \in Principals |-> IF p = "wallet_2" THEN InitSbtc ELSE 0]
  /\ price = 0
  /\ token_admin = Deployer
  /\ sbtc_supply = InitSbtc
  /\ rateLimit = << >>
  /\ events = << >>
  /\ inbox = << >>
  /\ response = NoResponse
  /\ now = 0

\* Writes of accrue-interest plus the rest of the chain state untouched
\* by every public function of the pool.
AccrueWrites(acc) ==
  /\ last_interest_accrual' = acc.last_interest_accrual
  /\ cumulative_yield_bips' = acc.cumulative_yield_bips

\* ------------------------------------------------------- deposit-stx
\* amount of the record written by deposit-stx
\* deposit-stx storing the new amount instead of adding it to the record
DepositNewAmountOverwrite(depositedStx, amount) == amount

DepositNewAmount(depositedStx, amount) == depositedStx + amount

\* deposit-stx run when current-time is currentTime
DepositStepsAt(currentTime, caller, amount) ==
  << Step("asserts! paused", "check", PoolActive, Err(ERR_PAUSED)),
     Step("asserts! amount", "check", amount > 0,
          Err(ERR_INVALID_DEPOSIT_AMOUNT)),
     Step("accrue-interest", "accrue",
          AccrueInterestOkAt(currentTime, last_interest_accrual), Panic),
     Step("stx-transfer?", "transfer",
          TransferOk(stx, amount, caller, Pool), Err(ERR_STX_TRANSFER)),
     Step("map-set deposits", "write", TRUE, Panic),
     Step("var-set total-stx-deposits", "write", TRUE, Panic) >>

DepositSteps(caller, amount) ==
  DepositStepsAt(GetCurrentTime, caller, amount)

DepositStxAt(currentTime, caller, amount) ==
  LET acc == AccrueInterestAt(currentTime, last_interest_accrual,
                              total_stx_borrows, cumulative_yield_bips)
      depositedStx == AmountOf(deposits, caller)
  IN  IF Succeeds(DepositStepsAt(currentTime, caller, amount))
      THEN /\ AccrueWrites(acc)
           /\ total_stx_borrows' = acc.total_stx_borrows
           /\ stx' = Transfer(stx, amount, caller, Pool)
           /\ deposits' =
                MapSet(deposits, caller,
                       [amount |-> DepositNewAmount(depositedStx, amount),
                        yield_index |-> acc.cumulative_yield_bips])
           /\ total_stx_deposits' = total_stx_deposits + amount
           /\ UNCHANGED <<total_sbtc_collateral, cfgVars, collateral,
                          borrows, sbtc, price,
                          tokenVars, limiterVars, hookVars>>
      ELSE UNCHANGED vars

\* deposit-stx: current-time is (get-current-time)
DepositStx(caller, amount) == DepositStxAt(GetCurrentTime, caller, amount)

\* ------------------------------------------------------ withdraw-stx
\* withdraw-stx emptying the record whatever the amount withdrawn
WithdrawNewAmountAll(depositedStx, amount) == 0

\* new-amount of withdraw-stx
WithdrawNewAmount(depositedStx, amount) == depositedStx - amount

\* withdraw-stx without the test of the amount against the record
WithdrawAmountCoveredAlways(depositedStx, amount) == TRUE

\* (asserts! (>= deposited-stx amount) ERR_INVALID_WITHDRAW_AMOUNT)
WithdrawAmountCovered(depositedStx, amount) == depositedStx >= amount

\* total-stx-deposits written by withdraw-stx
WithdrawNewTotal(total, amount) == total - amount

\* withdraw-stx leaving the checkpoint of the record where it was
WithdrawNewYieldIndexStale(yieldIndex, cumulativeYield) == yieldIndex

\* yield-index: (var-get cumulative-yield-bips) of withdraw-stx
WithdrawNewYieldIndex(yieldIndex, cumulativeYield) == cumulativeYield

\* withdraw-stx paying the amount without the pending yield
WithdrawPayoutAtNoYield(currentTime, caller, amount) == amount

\* what withdraw-stx transfers: (+ amount pending-yield), the yield taken
\* after accrue-interest has run, when current-time is currentTime
WithdrawPayoutAt(currentTime, caller, amount) ==
  amount
    + PendingYield(caller,
                   AccrueInterestAt(currentTime, last_interest_accrual,
                                    total_stx_borrows,
                                    cumulative_yield_bips)
                     .cumulative_yield_bips)

WithdrawPayout(caller, amount) ==
  WithdrawPayoutAt(GetCurrentTime, caller, amount)

\* withdraw-stx run when current-time is currentTime
WithdrawStepsAt(currentTime, caller, amount) ==
  LET acc == AccrueInterestAt(currentTime, last_interest_accrual,
                              total_stx_borrows, cumulative_yield_bips)
      depositedStx == AmountOf(deposits, caller)
  IN
  << Step("unwrap! map-get? deposits", "check", Has(deposits, caller),
          Err(ERR_INVALID_WITHDRAW_AMOUNT)),
     Step("asserts! paused", "check", PoolActive, Err(ERR_PAUSED)),
     Step("asserts! amount", "check", amount > 0,
          Err(ERR_INVALID_WITHDRAW_AMOUNT)),
     Step("asserts! deposited-stx", "check",
          WithdrawAmountCovered(depositedStx, amount),
          Err(ERR_INVALID_WITHDRAW_AMOUNT)),
     Step("accrue-interest", "accrue",
          AccrueInterestOkAt(currentTime, last_interest_accrual), Panic),
     Step("get-pending-yield", "read",
          PendingYieldOk(caller, acc.cumulative_yield_bips), Panic),
     Step("map-set deposits", "write", TRUE, Panic),
     Step("var-set total-stx-deposits", "write",
          total_stx_deposits >= amount, Panic),
     Step("asserts! liquidity", "check",
          stx[Pool] >= WithdrawPayoutAt(currentTime, caller, amount),
          Err(ERR_INSUFFICIENT_LIQUIDITY)),
     Step("stx-transfer?", "transfer",
          TransferOk(stx, WithdrawPayoutAt(currentTime, caller, amount),
                     Pool, caller),
          Err(ERR_STX_TRANSFER)) >>

WithdrawSteps(caller, amount) ==
  WithdrawStepsAt(GetCurrentTime, caller, amount)

\* withdraw-stx keeping the record and total it wrote when the liquidity
\* check or the transfer after them fails
WithdrawStxPartial(caller, amount) ==
  LET acc == AccrueInterest
      newAmount == AmountOf(deposits, caller) - amount
      pendingYield == PendingYield(caller, acc.cumulative_yield_bips)
      reached == FirstFail(WithdrawSteps(caller, amount))
  IN  IF reached = 0 \/ reached > 8
      THEN /\ AccrueWrites(acc)
           /\ total_stx_borrows' = acc.total_stx_borrows
           /\ deposits' =
                IF newAmount = 0
                THEN MapDelete(deposits, caller)
                ELSE MapSet(deposits, caller,
                            [amount |-> newAmount,
                             yield_index |-> acc.cumulative_yield_bips])
           /\ total_stx_deposits' = total_stx_deposits - amount
           /\ stx' = IF reached = 0
                     THEN Transfer(stx, amount + pendingYield, Pool, caller)
                     ELSE stx
           /\ UNCHANGED <<total_sbtc_collateral, cfgVars, collateral,
                          borrows, sbtc, price,
                          tokenVars, limiterVars, hookVars>>
      ELSE UNCHANGED vars

WithdrawStxAt(currentTime, caller, amount) ==
  LET acc == AccrueInterestAt(currentTime, last_interest_accrual,
                              total_stx_borrows, cumulative_yield_bips)
      depositedStx == AmountOf(deposits, caller)
      newAmount == WithdrawNewAmount(depositedStx, amount)
  IN  IF Succeeds(WithdrawStepsAt(currentTime, caller, amount))
      THEN /\ AccrueWrites(acc)
           /\ total_stx_borrows' = acc.total_stx_borrows
           /\ deposits' =
                IF newAmount = 0
                THEN MapDelete(deposits, caller)
                ELSE MapSet(deposits, caller,
                            [amount |-> newAmount,
                             yield_index |->
                               WithdrawNewYieldIndex(
                                 YieldIndexOf(caller),
                                 acc.cumulative_yield_bips)])
           /\ total_stx_deposits' =
                WithdrawNewTotal(total_stx_deposits, amount)
           /\ stx' = Transfer(stx,
                              WithdrawPayoutAt(currentTime, caller, amount),
                              Pool, caller)
           /\ UNCHANGED <<total_sbtc_collateral, cfgVars, collateral,
                          borrows, sbtc, price,
                          tokenVars, limiterVars, hookVars>>
      ELSE UNCHANGED vars

\* withdraw-stx: current-time is (get-current-time)
WithdrawStx(caller, amount) == WithdrawStxAt(GetCurrentTime, caller, amount)

\* ------------------------------------------------------ oracle price
\* the price test letting every reading through
PriceIsValidAlways(oraclePrice) == TRUE

\* (asserts! (> price u0) ERR_INVALID_PRICE) of borrow-stx and liquidate
PriceIsValid(oraclePrice) == oraclePrice > 0

\* -------------------------------------------------------- borrow-stx
\* max-borrow without the loan-to-value factor
MaxBorrowNoLtv(totalCollateral, oraclePrice) == totalCollateral * oraclePrice

\* max-borrow of borrow-stx
MaxBorrow(totalCollateral, oraclePrice) ==
  ((totalCollateral * oraclePrice) * ltv_percentage) \div 100

\* new-borrow of borrow-stx without what the account owes already
NewBorrowAmountOnly(caller, amountStx) == amountStx

\* new-borrow of borrow-stx
NewBorrow(caller, amountStx) ==
  LET currentBorrow == AmountOf(borrows, caller)
      lastAccrued == IF Has(borrows, caller)
                     THEN borrows[caller].last_accrued ELSE GetCurrentTime
  IN  (currentBorrow + CalculateInterest(currentBorrow, lastAccrued))
        + amountStx

\* borrow-stx leaving total-stx-borrows as it was
BorrowNewTotalBorrowsStale(total, amountStx) == total

\* borrow-stx storing the borrowed amount as the new total-stx-borrows
BorrowNewTotalBorrowsOverwrite(total, amountStx) == amountStx

\* borrow-stx leaving total-sbtc-collateral as it was
BorrowNewTotalCollateralStale(total, collateralAmount) == total

\* total-stx-borrows / total-sbtc-collateral written by borrow-stx
BorrowNewTotalBorrows(total, amountStx) == total + amountStx
BorrowNewTotalCollateral(total, collateralAmount) ==
  IF collateralAmount > 0 THEN total + collateralAmount ELSE total

BorrowSteps(caller, collateralAmount, amountStx) ==
  LET existingCollateralAmount == AmountOf(collateral, caller)
      totalCollateral == existingCollateralAmount + collateralAmount
      lastAccrued == IF Has(borrows, caller)
                     THEN borrows[caller].last_accrued ELSE GetCurrentTime
  IN
  << Step("asserts! paused", "check", PoolActive, Err(ERR_PAUSED)),
     Step("asserts! amount-stx", "check", amountStx > 0,
          Err(ERR_INVALID_BORROW_AMOUNT)),
     Step("asserts! collateral", "check",
          collateralAmount > 0 \/ existingCollateralAmount > 0,
          Err(ERR_EXCEEDED_MAX_BORROW)),
     Step("accrue-interest", "accrue", AccrueInterestOk, Panic),
     Step("get-sbtc-stx-price", "read", TRUE, Panic),
     Step("calculate-interest", "read", CalculateInterestOk(lastAccrued),
          Panic),
     Step("asserts! price", "check", PriceIsValid(price),
          Err(ERR_INVALID_PRICE)),
     Step("asserts! max-borrow", "check",
          NewBorrow(caller, amountStx) <= MaxBorrow(totalCollateral, price),
          Err(ERR_EXCEEDED_MAX_BORROW)),
     Step("asserts! liquidity", "check", stx[Pool] >= amountStx,
          Err(ERR_INSUFFICIENT_LIQUIDITY)) >>
  \o (IF collateralAmount > 0
      THEN << Step("sbtc transfer", "transfer",
                   TransferOk(sbtc, collateralAmount, caller, Pool),
                   Err(ERR_INVALID_SBTC_CONTRACT)) >>
      ELSE << >>)
  \o
  << Step("stx-transfer?", "transfer",
          TransferOk(stx, amountStx, Pool, caller), Err(ERR_STX_TRANSFER)),
     Step("map-set collateral", "write", TRUE, Panic),
     Step("map-set borrows", "write", TRUE, Panic),
     Step("var-set total-stx-borrows", "write", TRUE, Panic) >>
  \o (IF collateralAmount > 0
      THEN << Step("var-set total-sbtc-collateral", "write", TRUE, Panic) >>
      ELSE << >>)

BorrowStx(caller, collateralAmount, amountStx) ==
  LET acc == AccrueInterest
      totalCollateral == AmountOf(collateral, caller) + collateralAmount
  IN  IF Succeeds(BorrowSteps(caller, collateralAmount, amountStx))
      THEN /\ AccrueWrites(acc)
           /\ sbtc' = IF collateralAmount > 0
                      THEN Transfer(sbtc, collateralAmount, caller, Pool)
                      ELSE sbtc
           /\ stx' = Transfer(stx, amountStx, Pool, caller)
           /\ collateral' =
                MapSet(collateral, caller, [amount |-> totalCollateral])
           /\ borrows' =
                MapSet(borrows, caller,
                       [amount |-> NewBorrow(caller, amountStx),
                        last_accrued |-> GetCurrentTime])
           /\ total_stx_borrows' =
                BorrowNewTotalBorrows(acc.total_stx_borrows, amountStx)
           /\ total_sbtc_collateral' =
                BorrowNewTotalCollateral(total_sbtc_collateral,
                                         collateralAmount)
           /\ UNCHANGED <<total_stx_deposits, cfgVars, deposits, price,
                          tokenVars, limiterVars, hookVars>>
      ELSE UNCHANGED vars

\* ------------------------------------------------------------- repay
\* total-owed of repay and liquidate
TotalOwed(user) ==
  LET borrowed == AmountOf(borrows, user)
      lastAccrued == IF Has(borrows, user)
                     THEN borrows[user].last_accrued ELSE GetCurrentTime
  IN  borrowed + CalculateInterest(borrowed, lastAccrued)

\* repay leaving total-sbtc-collateral as it was
RepayNewTotalCollateralStale(total, collateralAmount) == total

\* total-sbtc-collateral written by repay
RepayNewTotalCollateral(total, collateralAmount) == total - collateralAmount

\* repay leaving the collateral record in the map
RepayNewCollateralKeeps(m, user) == m

\* (map-delete collateral { user: tx-sender }) of repay
RepayNewCollateral(m, user) == MapDelete(m, user)

RepaySteps(caller) ==
  LET borrowed == AmountOf(borrows, caller)
      lastAccrued == IF Has(borrows, caller)
                     THEN borrows[caller].last_accrued ELSE GetCurrentTime
      collateralAmount == AmountOf(collateral, caller)
      totalOwed == TotalOwed(caller)
  IN
  << Step("unwrap! map-get? borrows", "check", Has(borrows, caller),
          Err(ERR_INVALID_WITHDRAW_AMOUNT)),
     Step("asserts! paused", "check", PoolActive, Err(ERR_PAUSED)),
     Step("asserts! borrowed", "check", borrowed > 0,
          Err(ERR_INVALID_WITHDRAW_AMOUNT)),
     Step("calculate-interest", "read", CalculateInterestOk(lastAccrued),
          Panic),
     Step("stx-transfer?", "transfer",
          TransferOk(stx, totalOwed, caller, Pool), Err(ERR_STX_TRANSFER)) >>
  \o (IF collateralAmount > 0
      THEN << Step("sbtc transfer", "transfer",
                   TransferOk(sbtc, collateralAmount, Pool, caller),
                   Err(ERR_INVALID_SBTC_CONTRACT)) >>
      ELSE << >>)
  \o
  << Step("map-delete borrows", "write", TRUE, Panic),
     Step("map-delete collateral", "write", TRUE, Panic),
     Step("var-set total-stx-borrows", "write",
          total_stx_borrows >= totalOwed, Panic),
     Step("var-set total-sbtc-collateral", "write",
          total_sbtc_collateral >= collateralAmount, Panic) >>

Repay(caller) ==
  LET collateralAmount == AmountOf(collateral, caller)
      totalOwed == TotalOwed(caller)
  IN  IF Succeeds(RepaySteps(caller))
      THEN /\ stx' = Transfer(stx, totalOwed, caller, Pool)
           /\ sbtc' = IF collateralAmount > 0
                      THEN Transfer(sbtc, collateralAmount, Pool, caller)
                      ELSE sbtc
           /\ borrows' = MapDelete(borrows, caller)
           /\ collateral' = RepayNewCollateral(collateral, caller)
           /\ total_stx_borrows' = total_stx_borrows - totalOwed
           /\ total_sbtc_collateral' =
                RepayNewTotalCollateral(total_sbtc_collateral,
                                        collateralAmount)
           /\ UNCHANGED <<total_stx_deposits, last_interest_accrual,
                          cumulative_yield_bips, cfgVars, deposits, price,
                          tokenVars, limiterVars, hookVars>>
      ELSE UNCHANGED vars

\* --------------------------------------------------------- liquidate
\* the liquidation test with a strict comparison
CanLiquidateStrict(totalOwed, collateralAmount, oraclePrice) ==
  totalOwed * 100
    > (collateralAmount * oraclePrice) * liquidation_threshold_percentage

\* the liquidation test of liquidate
CanLiquidate(totalOwed, collateralAmount, oraclePrice) ==
  totalOwed * 100
    >= (collateralAmount * oraclePrice) * liquidation_threshold_percentage

\* repay-amount of liquidate without the discount
RepayAmountFull(totalOwed) == totalOwed

\* repay-amount of liquidate
RepayAmount(totalOwed) ==
  (totalOwed * (100 - liquidation_penalty_percentage)) \div 100

\* liquidate writing off only what the liquidator paid
LiquidateNewTotalBorrowsPaid(total, totalOwed) == total - RepayAmount(totalOwed)

\* total-stx-borrows written by liquidate
LiquidateNewTotalBorrows(total, totalOwed) == total - totalOwed

LiquidateSteps(liquidator, user) ==
  LET lastAccrued == IF Has(borrows, user)
                     THEN borrows[user].last_accrued ELSE GetCurrentTime
      collateralAmount == AmountOf(collateral, user)
      totalOwed == TotalOwed(user)
  IN
  << Step("unwrap! map-get? borrows", "check", Has(borrows, user),
          Err(ERR_CANNOT_BE_LIQUIDATED)),
     Step("unwrap! map-get? collateral", "check", Has(collateral, user),
          Err(ERR_CANNOT_BE_LIQUIDATED)),
     Step("asserts! paused", "check", PoolActive, Err(ERR_PAUSED)),
     Step("calculate-interest", "read", CalculateInterestOk(lastAccrued),
          Panic),
     Step("get-sbtc-stx-price", "read", TRUE, Panic),
     Step("asserts! price", "check", PriceIsValid(price),
          Err(ERR_INVALID_PRICE)),
     Step("asserts! threshold", "check",
          CanLiquidate(totalOwed, collateralAmount, price),
          Err(ERR_CANNOT_BE_LIQUIDATED)),
     Step("repay-amount", "read", liquidation_penalty_percentage <= 100,
          Panic),
     Step("stx-transfer?", "transfer",
          TransferOk(stx, RepayAmount(totalOwed), liquidator, Pool),
          Err(ERR_STX_TRANSFER)),
     Step("sbtc transfer", "transfer",
          TransferOk(sbtc, collateralAmount, Pool, liquidator),
          Err(ERR_INVALID_SBTC_CONTRACT)),
     Step("map-delete borrows", "write", TRUE, Panic),
     Step("map-delete collateral", "write", TRUE, Panic),
     Step("var-set total-stx-borrows", "write",
          total_stx_borrows >= totalOwed, Panic),
     Step("var-set total-sbtc-collateral", "write",
          total_sbtc_collateral >= collateralAmount, Panic) >>

Liquidate(liquidator, user) ==
  LET collateralAmount == AmountOf(collateral, user)
      totalOwed == TotalOwed(user)
  IN  IF Succeeds(LiquidateSteps(liquidator, user))
      THEN /\ stx' = Transfer(stx, RepayAmount(totalOwed), liquidator, Pool)
           /\ sbtc' = Transfer(sbtc, collateralAmount, Pool, liquidator)
           /\ borrows' = MapDelete(borrows, user)
           /\ collateral' = MapDelete(collateral, user)
           /\ total_stx_borrows' =
                LiquidateNewTotalBorrows(total_stx_borrows, totalOwed)
           /\ total_sbtc_collateral' =
                total_sbtc_collateral - collateralAmount
           /\ UNCHANGED <<total_stx_deposits, last_interest_accrual,
                          cumulative_yield_bips, cfgVars, deposits, price,
                          tokenVars, limiterVars, hookVars>>
      ELSE UNCHANGED vars

\* ------------------------------------------------------------- admin
\* the admin test against the deployer instead of the admin in office
IsAdminDefault(caller) == caller = DEFAULT_ADMIN

\* (asserts! (is-eq tx-sender (var-get admin)) ERR_UNAUTHORIZED)
IsAdmin(caller) == caller = admin

SetPausedSteps(caller) ==
  << Step("asserts! admin", "check", IsAdmin(caller),
          Err(ERR_UNAUTHORIZED)),
     Step("var-set paused", "write", TRUE, Panic) >>

SetPaused(caller, pausedValue) ==
  IF Succeeds(SetPausedSteps(caller))
  THEN /\ paused' = pausedValue
       /\ UNCHANGED <<aggVars, admin, ltv_percentage,
                      interest_rate_percentage,
                      liquidation_threshold_percentage,
                      liquidation_penalty_percentage, sbtc_token,
                      mapVars, balVars, price,
                      tokenVars, limiterVars, hookVars>>
  ELSE UNCHANGED vars

SetAdminSteps(caller) ==
  << Step("asserts! admin", "check", IsAdmin(caller),
          Err(ERR_UNAUTHORIZED)),
     Step("var-set admin", "write", TRUE, Panic) >>

\* set-admin that also lifts the pause
SetAdminLiftsPause(caller, newAdmin) ==
  IF Succeeds(SetAdminSteps(caller))
  THEN /\ admin' = newAdmin
       /\ paused' = FALSE
       /\ UNCHANGED <<aggVars, ltv_percentage,
                      interest_rate_percentage,
                      liquidation_threshold_percentage,
                      liquidation_penalty_percentage, sbtc_token,
                      mapVars, balVars, price,
                      tokenVars, limiterVars, hookVars>>
  ELSE UNCHANGED vars

SetAdmin(caller, newAdmin) ==
  IF Succeeds(SetAdminSteps(caller))
  THEN /\ admin' = newAdmin
       /\ UNCHANGED <<aggVars, paused, ltv_percentage,
                      interest_rate_percentage,
                      liquidation_threshold_percentage,
                      liquidation_penalty_percentage, sbtc_token,
                      mapVars, balVars, price,
                      tokenVars, limiterVars, hookVars>>
  ELSE UNCHANGED vars

\* set-params without the bound on the penalty
SetParamsStepsNoPenaltyBound(caller, newLtv, newInterest, newThreshold, newPenalty) ==
  << Step("asserts! admin", "check", IsAdmin(caller),
          Err(ERR_UNAUTHORIZED)),
     Step("asserts! new-ltv", "check", newLtv <= 90,
          Err(ERR_INVALID_LIQUIDATION)),
     Step("asserts! new-interest", "check", newInterest <= 100,
          Err(ERR_INVALID_LIQUIDATION)),
     Step("asserts! new-threshold", "check", newThreshold <= 150,
          Err(ERR_INVALID_LIQUIDATION)),
     Step("var-set ltv-percentage", "write", TRUE, Panic),
     Step("var-set interest-rate-percentage", "write", TRUE, Panic),
     Step("var-set liquidation-threshold-percentage", "write", TRUE, Panic),
     Step("var-set liquidation-penalty-percentage", "write", TRUE, Panic) >>

SetParamsSteps(caller, newLtv, newInterest, newThreshold, newPenalty) ==
  << Step("asserts! admin", "check", IsAdmin(caller),
          Err(ERR_UNAUTHORIZED)),
     Step("asserts! new-ltv", "check", newLtv <= 90,
          Err(ERR_INVALID_LIQUIDATION)),
     Step("asserts! new-interest", "check", newInterest <= 100,
          Err(ERR_INVALID_LIQUIDATION)),
     Step("asserts! new-threshold", "check", newThreshold <= 150,
          Err(ERR_INVALID_LIQUIDATION)),
     Step("asserts! new-penalty", "check", newPenalty <= 30,
          Err(ERR_INVALID_LIQUIDATION)),
     Step("var-set ltv-percentage", "write", TRUE, Panic),
     Step("var-set interest-rate-percentage", "write", TRUE, Panic),
     Step("var-set liquidation-threshold-percentage", "write", TRUE, Panic),
     Step("var-set liquidation-penalty-percentage", "write", TRUE, Panic) >>

SetParams(caller, newLtv, newInterest, newThreshold, newPenalty) ==
  IF Succeeds(SetParamsSteps(caller, newLtv, newInterest, newThreshold,
                             newPenalty))
  THEN /\ ltv_percentage' = newLtv
       /\ interest_rate_percentage' = newInterest
       /\ liquidation_threshold_percentage' = newThreshold
       /\ liquidation_penalty_percentage' = newPenalty
       /\ UNCHANGED <<aggVars, admin, paused, sbtc_token,
                      mapVars, balVars, price,
                      tokenVars, limiterVars, hookVars>>
  ELSE UNCHANGED vars

SetSbtcTokenSteps(caller) ==
  << Step("asserts! admin", "check", IsAdmin(caller),
          Err(ERR_UNAUTHORIZED)),
     Step("var-set sbtc-token", "write", TRUE, Panic) >>

SetSbtcToken(caller, newToken) ==
  IF Succeeds(SetSbtcTokenSteps(caller))
  THEN /\ sbtc_token' = newToken
       /\ UNCHANGED <<aggVars, admin, paused, ltv_percentage,
                      interest_rate_percentage,
                      liquidation_threshold_percentage,
                      liquidation_penalty_percentage,
                      mapVars, balVars, price,
                      tokenVars, limiterVars, hookVars>>
  ELSE UNCHANGED vars

\* ------------------------------------------------------------ oracle
\* update-price of the mock oracle, by its updater.
UpdatePrice(newPrice) ==
  /\ price' = newPrice
  /\ UNCHANGED <<aggVars, cfgVars, mapVars, balVars,
                 tokenVars, limiterVars, hookVars>>

\* -------------------------------------------------------------- Next
Next ==
  \/ \E c \in Wallets, a \in AmountChoices :
       /\ total_stx_deposits + a <= MaxTotalDeposits
       /\ DepositStx(c, a)
  \/ \E c \in Wallets, a \in AmountChoices : WithdrawStx(c, a)
  \/ \E c \in Wallets, k \in CollateralChoices, a \in AmountChoices :
       BorrowStx(c, k, a)
  \/ \E c \in Wallets : Repay(c)
  \/ \E c \in Wallets, u \in Wallets : Liquidate(c, u)
  \/ \E c \in Callers, b \in BOOLEAN : SetPaused(c, b)
  \/ \E c \in Callers, n \in AdminChoices : SetAdmin(c, n)
  \/ \E c \in Callers, p \in ParamChoices :
       SetParams(c, p[1], p[2], p[3], p[4])
  \/ \E c \in Callers, t \in TokenChoices : SetSbtcToken(c, t)
  \/ \E p \in PriceChoices : UpdatePrice(p)

Spec == Init /\ [][Next]_vars

\* ------------------------------------------------- accrual engine
\* accrue-interest as a function of the time it is run at.  The source's
\* get-current-time returns u0, so under Spec every run is at time 0 and
\* takes the first branch; SpecAccrual runs the function at the times of
\* a clock that advances, over pool totals and rates drawn from small sets.
TimeChoices == {y * ONE_YEAR_IN_SECS : y \in 0..MaxYears}
BorrowsChoices == {0, 15, 10000}
DepositsChoices == {0, 10, 10000}
RateChoices == {10, 100}

InitAccrual ==
  /\ total_sbtc_collateral = 0
  /\ total_stx_deposits \in DepositsChoices
  /\ total_stx_borrows \in BorrowsChoices
  /\ last_interest_accrual = 0
  /\ cumulative_yield_bips = 0
  /\ admin = DEFAULT_ADMIN
  /\ paused = FALSE
  /\ ltv_percentage = LTV_PERCENTAGE
  /\ interest_rate_percentage \in RateChoices
  /\ liquidation_threshold_percentage = LIQUIDATION_THRESHOLD_PERCENTAGE
  /\ liquidation_penalty_percentage = LIQUIDATION_PENALTY_PERCENTAGE
  /\ sbtc_token = DEFAULT_SBTC_TOKEN
  /\ collateral = << >>
  /\ deposits = << >>
  /\ borrows = << >>
  /\ stx = [p \in Principals |-> 0]
  /\ sbtc = [p \in Principals |-> 0]
  /\ price = 0
  /\ token_admin = Deployer
  /\ sbtc_supply = 0
  /\ rateLimit = << >>
  /\ events = << >>
  /\ inbox = << >>
  /\ response = NoResponse
  /\ now = 0

AccrueInterestStep(currentTime) ==
  LET acc == AccrueInterestAt(currentTime, last_interest_accrual,
                              total_stx_borrows, cumulative_yield_bips)
  IN  IF AccrueInterestOkAt(currentTime, last_interest_accrual)
      THEN /\ AccrueWrites(acc)
           /\ total_stx_borrows' = acc.total_stx_borrows
           /\ UNCHANGED <<total_sbtc_collateral, total_stx_deposits, cfgVars,
                          mapVars, balVars, price,
                          tokenVars, limiterVars, hookVars>>
      ELSE UNCHANGED vars

NextAccrual == \E t \in TimeChoices : AccrueInterestStep(t)

SpecAccrual == InitAccrual /\ [][NextAccrual]_vars

\* ---------------------------------------------- deposits with yield
\* deposit-stx and withdraw-stx over deposit records that carry yield: the
\* index has grown past the checkpoint of a record, as it does once
\* accrue-interest has added interest.  Under Spec the index stays at 0
\* (get-current-time is u0); SpecYield starts from pools in which it has
\* grown, the records' checkpoints at or below it, and runs the two
\* functions as they are.
IndexChoices == {0, 5000, 10000}
DepositRecords ==
  {[amount |-> a, yield_index |-> y] : a \in {1, 2}, y \in IndexChoices}

InitYield ==
  \E S \in SUBSET Wallets : \E f \in [S -> DepositRecords] :
    /\ deposits = f
    /\ cumulative_yield_bips \in IndexChoices
    /\ \A c \in S : f[c].yield_index <= cumulative_yield_bips
    /\ total_stx_deposits = AmountOf(f, "wallet_1") + AmountOf(f, "wallet_2")
    /\ total_sbtc_collateral = 0
    /\ total_stx_borrows = 0
    /\ last_interest_accrual = 0
    /\ admin = DEFAULT_ADMIN
    /\ paused = FALSE
    /\ ltv_percentage = LTV_PERCENTAGE
    /\ interest_rate_percentage = INTEREST_RATE_PERCENTAGE
    /\ liquidation_threshold_percentage = LIQUIDATION_THRESHOLD_PERCENTAGE
    /\ liquidation_penalty_percentage = LIQUIDATION_PENALTY_PERCENTAGE
    /\ sbtc_token = DEFAULT_SBTC_TOKEN
    /\ collateral = << >>
    /\ borrows = << >>
    /\ \E b \in 0..MaxPoolStx :
         stx = [p \in Principals |->
                  IF p = Pool THEN b ELSE IF p \in Wallets THEN 1 ELSE 0]
    /\ sbtc = [p \in Principals |-> 0]
    /\ price = 0
    /\ token_admin = Deployer
    /\ sbtc_supply = 0
    /\ rateLimit = << >>
    /\ events = << >>
    /\ inbox = << >>
    /\ response = NoResponse
    /\ now = 0

NextYield ==
  \/ \E c \in Wallets, a \in AmountChoices :
       /\ total_stx_deposits + a <= MaxTotalDeposits
       /\ DepositStx(c, a)
  \/ \E c \in Wallets, a \in AmountChoices : WithdrawStx(c, a)

SpecYield == InitYield /\ [][NextYield]_vars

\* ------------------------------------------- deposits under a clock
\* deposit-stx and withdraw-stx run at the times of a clock that advances,
\* so that accrue-interest adds interest and depositors are paid yield.
\* The pool starts as the program leaves it after the admin has set the
\* interest rate to 100, wallet_1 has deposited 2 and wallet_2 has
\* borrowed them against 1 sBTC at price 3, all at time 0.
InitClock ==
  /\ total_sbtc_collateral = 1
  /\ total_stx_deposits = 2
  /\ total_stx_borrows = 2
  /\ last_interest_accrual = 0
  /\ cumulative_yield_bips = 0
  /\ admin = DEFAULT_ADMIN
  /\ paused = FALSE
  /\ ltv_percentage = LTV_PERCENTAGE
  /\ interest_rate_percentage = 100
  /\ liquidation_threshold_percentage = LIQUIDATION_THRESHOLD_PERCENTAGE
  /\ liquidation_penalty_percentage = LIQUIDATION_PENALTY_PERCENTAGE
  /\ sbtc_token = DEFAULT_SBTC_TOKEN
  /\ collateral = ("wallet_2" :> [amount |-> 1])
  /\ deposits = ("wallet_1" :> [amount |-> 2, yield_index |-> 0])
  /\ borrows = ("wallet_2" :> [amount |-> 2, last_accrued |-> 0])
  /\ stx = [p \in Principals |->
             IF p = "wallet_1" THEN InitStx - 2
             ELSE IF p = "wallet_2" THEN 2 ELSE 0]
  /\ sbtc = [p \in Principals |->
              IF p = "wallet_2" THEN InitSbtc - 1
              ELSE IF p = Pool THEN 1 ELSE 0]
  /\ price = 3
  /\ token_admin = Deployer
  /\ sbtc_supply = InitSbtc
  /\ rateLimit = << >>
  /\ events = << >>
  /\ inbox = << >>
  /\ response = NoResponse
  /\ now = 0

NextClock ==
  \/ \E t \in TimeChoices, c \in Wallets, a \in AmountChoices :
       /\ total_stx_deposits + a <= MaxTotalDeposits
       /\ DepositStxAt(t, c, a)
  \/ \E t \in TimeChoices, c \in Wallets, a \in AmountChoices :
       WithdrawStxAt(t, c, a)

SpecClock == InitClock /\ [][NextClock]_vars

\* ------------------------------------------------- administration
\* The admin functions with the admin handed from one principal to
\* another, the token reference changed and every mix of in-bound and
\* out-of-bound parameters, beside deposits and withdrawals.
AdminCandidates == Callers
TokenCandidates == {DEFAULT_SBTC_TOKEN, "other-sbtc-token"}
ParamCandidates ==
  {70, 90, 91} \X {10, 100, 101} \X {100, 150, 151} \X {10, 30, 31}

NextAdmin ==
  \/ \E c \in Callers, b \in BOOLEAN : SetPaused(c, b)
  \/ \E c \in Callers, n \in AdminCandidates : SetAdmin(c, n)
  \/ \E c \in Callers, p \in ParamCandidates :
       SetParams(c, p[1], p[2], p[3], p[4])
  \/ \E c \in Callers, t \in TokenCandidates : SetSbtcToken(c, t)
  \/ \E c \in Wallets, a \in AmountChoices :
       /\ total_stx_deposits + a <= MaxTotalDeposits
       /\ DepositStx(c, a)
  \/ \E c \in Wallets, a \in AmountChoices : WithdrawStx(c, a)

SpecAdmin == Init /\ [][NextAdmin]_vars

\* -------------------------------------------------- risk parameters
\* The pool with its risk parameters set to values set-params accepts:
\* the defaults, the four upper bounds, and a liquidation threshold below
\* the loan-to-value percentage.
RiskCandidates ==
  { <<70, 10, 100, 10>>, <<90, 100, 150, 30>>, <<70, 10, 50, 10>> }

NextRisk ==
  \/ \E c \in Callers, p \in RiskCandidates :
       SetParams(c, p[1], p[2], p[3], p[4])
  \/ \E c \in Wallets, a \in AmountChoices :
       /\ total_stx_deposits + a <= MaxTotalDeposits
       /\ DepositStx(c, a)
  \/ \E c \in Wallets, k \in CollateralChoices, a \in AmountChoices :
       BorrowStx(c, k, a)
  \/ \E c \in Wallets, u \in Wallets : Liquidate(c, u)
  \/ \E p \in PriceChoices : UpdatePrice(p)

SpecRisk == Init /\ [][NextRisk]_vars

\* ------------------------------------------------ collateral token
\* mock-sbtc-token-v2, the SIP-010 token the pool holds as collateral
\* (src/stackboost-contract/tests/mock-sbtc-token.test.ts, lines 90-152).
\* Its balances are sbtc, its supply sbtc_supply, its admin token_admin.
TOKEN_ERR_UNAUTHORIZED == 100

\* The token's functions are explored while the supply stays within this.
MaxTokenSupply == 125

TokenCallers == Wallets \cup {Deployer}
TokenHolders == TokenCallers \cup {Pool}
TokenAmountChoices == {0, 25, 100}

\* (ok (ft-get-supply sbtc)), (ok (ft-get-balance sbtc who))
GetTotalSupply == sbtc_supply
GetBalance(who) == sbtc[who]

\* What ft-transfer? returns when it moves nothing: u3 for a zero amount,
\* u2 for sender = recipient, u1 for a balance below the amount.
FtTransferErr(amount, from, to) ==
  IF amount = 0 THEN 3 ELSE IF from = to THEN 2 ELSE 1

\* ft-mint? fails, with u1, on a zero amount.
FtMintOk(amount) == amount > 0

\* ft-burn? fails, with u1, on a zero amount and on a balance below it.
FtBurnOk(amount, owner) == amount > 0 /\ sbtc[owner] >= amount

\* (asserts! (is-eq sender tx-sender) ERR_UNAUTHORIZED)
TokenTransferSteps(caller, amount, sender, recipient) ==
  << Step("asserts! sender", "check", sender = caller,
          Err(TOKEN_ERR_UNAUTHORIZED)),
     Step("ft-transfer?", "transfer",
          TransferOk(sbtc, amount, sender, recipient),
          Err(FtTransferErr(amount, sender, recipient))) >>

TokenTransfer(caller, amount, sender, recipient) ==
  IF Succeeds(TokenTransferSteps(caller, amount, sender, recipient))
  THEN /\ sbtc' = Transfer(sbtc, amount, sender, recipient)
       /\ UNCHANGED <<aggVars, cfgVars, mapVars, stx, price,
                      tokenVars, limiterVars, hookVars>>
  ELSE UNCHANGED vars

\* mint's admin test passing for every caller
TokenIsAdminAlways(caller) == TRUE

\* (asserts! (is-eq tx-sender (var-get admin)) ERR_UNAUTHORIZED)
TokenIsAdmin(caller) == caller = token_admin

\* a mint that leaves the supply as it was
MintSupplyStale(amount) == sbtc_supply

\* the supply after ft-mint?
MintSupply(amount) == sbtc_supply + amount

MintSteps(caller, amount, recipient) ==
  << Step("asserts! admin", "check", TokenIsAdmin(caller),
          Err(TOKEN_ERR_UNAUTHORIZED)),
     Step("ft-mint?", "transfer", FtMintOk(amount), Err(1)) >>

Mint(caller, amount, recipient) ==
  IF Succeeds(MintSteps(caller, amount, recipient))
  THEN /\ sbtc' = [sbtc EXCEPT ![recipient] = @ + amount]
       /\ sbtc_supply' = MintSupply(amount)
       /\ UNCHANGED <<aggVars, cfgVars, mapVars, stx, price,
                      token_admin, limiterVars, hookVars>>
  ELSE UNCHANGED vars

BurnSteps(caller, amount, owner) ==
  << Step("asserts! owner", "check", caller = owner,
          Err(TOKEN_ERR_UNAUTHORIZED)),
     Step("ft-burn?", "transfer", FtBurnOk(amount, owner), Err(1)) >>

Burn(caller, amount, owner) ==
  IF Succeeds(BurnSteps(caller, amount, owner))
  THEN /\ sbtc' = [sbtc EXCEPT ![owner] = @ - amount]
       /\ sbtc_supply' = sbtc_supply - amount
       /\ UNCHANGED <<aggVars, cfgVars, mapVars, stx, price,
                      token_admin, limiterVars, hookVars>>
  ELSE UNCHANGED vars

TokenSetAdminSteps(caller) ==
  << Step("asserts! admin", "check", TokenIsAdmin(caller),
          Err(TOKEN_ERR_UNAUTHORIZED)),
     Step("var-set admin", "write", TRUE, Panic) >>

TokenSetAdmin(caller, newAdmin) ==
  IF Succeeds(TokenSetAdminSteps(caller))
  THEN /\ token_admin' = newAdmin
       /\ UNCHANGED <<aggVars, cfgVars, mapVars, balVars, price,
                      sbtc_supply, limiterVars, hookVars>>
  ELSE UNCHANGED vars

\* The token as deployed: no supply, the deployer its admin; the pool and
\* the limiter as constructed.
InitToken ==
  /\ total_sbtc_collateral = 0
  /\ total_stx_deposits = 0
  /\ total_stx_borrows = 0
  /\ last_interest_accrual = 0
  /\ cumulative_yield_bips = 0
  /\ admin = DEFAULT_ADMIN
  /\ paused = FALSE
  /\ ltv_percentage = LTV_PERCENTAGE
  /\ interest_rate_percentage = INTEREST_RATE_PERCENTAGE
  /\ liquidation_threshold_percentage = LIQUIDATION_THRESHOLD_PERCENTAGE
  /\ liquidation_penalty_percentage = LIQUIDATION_PENALTY_PERCENTAGE
  /\ sbtc_token = DEFAULT_SBTC_TOKEN
  /\ collateral = << >>
  /\ deposits = << >>
  /\ borrows = << >>
  /\ stx = [p \in Principals |-> IF p = "wallet_1" THEN InitStx ELSE 0]
  /\ sbtc = [p \in Principals |-> 0]
  /\ price = 0
  /\ token_admin = Deployer
  /\ sbtc_supply = 0
  /\ rateLimit = << >>
  /\ events = << >>
  /\ inbox = << >>
  /\ response = NoResponse
  /\ now = 0

NextToken ==
  \/ \E c \in TokenCallers, a \in TokenAmountChoices, r \in TokenHolders :
       /\ sbtc_supply + a <= MaxTokenSupply
       /\ Mint(c, a, r)
  \/ \E c \in TokenCallers, a \in TokenAmountChoices, o \in TokenHolders :
       Burn(c, a, o)
  \/ \E c \in TokenCallers, a \in TokenAmountChoices,
        s \in TokenHolders, r \in TokenHolders :
       TokenTransfer(c, a, s, r)
  \/ \E c \in TokenCallers, n \in TokenCallers : TokenSetAdmin(c, n)

SpecToken == InitToken /\ [][NextToken]_vars

\* ---------------------------------------------------- rate limiter
\* src/stacks-boost-frontend/middleware.ts: an in-memory map from a
\* client key to {count, resetAt}, read and written by every request to
\* an API route, and swept by a timer.  now is Date.now().
RATE_LIMIT_WINDOW == 60000
MAX_REQUESTS == 30
STATUS_TOO_MANY_REQUESTS == 429

\* A header or property the request does not carry.
NoValue == "undefined"
IpChoices == {NoValue, "10.0.0.1"}
ForwardedChoices == {NoValue, "10.0.0.1"}
\* pathnames, character by character: /api/x, /api, /x
PathChoices ==
  { <<"/", "a", "p", "i", "/", "x">>, <<"/", "a", "p", "i">>, <<"/", "x">> }
Requests ==
  [ip : IpChoices, forwarded : ForwardedChoices, path : PathChoices]
\* the readings of the clock: the start, the last instant of the first
\* window, the first instant after it, and an instant after every window
ClockChoices ==
  {0, RATE_LIMIT_WINDOW, RATE_LIMIT_WINDOW + 1, 2 * RATE_LIMIT_WINDOW + 2}

ApiPrefix == <<"/", "a", "p", "i", "/">>

\* String.prototype.startsWith
StartsWith(s, prefix) ==
  /\ Len(s) >= Len(prefix)
  /\ SubSeq(s, 1, Len(prefix)) = prefix

\* request.ip ?? request.headers.get('x-forwarded-for') ?? 'unknown'
GetRateLimitKey(request) ==
  IF request.ip # NoValue THEN request.ip
  ELSE IF request.forwarded # NoValue THEN request.forwarded
  ELSE "unknown"

\* !record || now > record.resetAt
WindowOver(key) ==
  \/ ~Has(rateLimit, key)
  \/ now > rateLimit[key].resetAt

\* the limit test letting one request more through
LimitReachedOffByOne(key) == rateLimit[key].count > MAX_REQUESTS

\* record.count >= MAX_REQUESTS
LimitReached(key) == rateLimit[key].count >= MAX_REQUESTS

\* what checkRateLimit returns
CheckRateLimit(key) == WindowOver(key) \/ ~LimitReached(key)

\* the map checkRateLimit leaves
RateLimitAfter(key) ==
  IF WindowOver(key)
  THEN MapSet(rateLimit, key,
              [count |-> 1, resetAt |-> now + RATE_LIMIT_WINDOW])
  ELSE IF LimitReached(key) THEN rateLimit
  ELSE [rateLimit EXCEPT ![key].count = @ + 1]

\* NextResponse.next() and the JSON response with status 429
ResponseNext == [kind |-> "next", status |-> 0]
ResponseLimited == [kind |-> "json", status |-> STATUS_TOO_MANY_REQUESTS]

IsApiPath(request) == StartsWith(request.path, ApiPrefix)

\* what middleware returns
MiddlewareResponse(request) ==
  IF IsApiPath(request) /\ ~CheckRateLimit(GetRateLimitKey(request))
  THEN ResponseLimited
  ELSE ResponseNext

Middleware(request) ==
  /\ rateLimit' = IF IsApiPath(request)
                  THEN RateLimitAfter(GetRateLimitKey(request))
                  ELSE rateLimit
  /\ UNCHANGED <<aggVars, cfgVars, mapVars, balVars, price, tokenVars, now, hookVars>>

\* the setInterval callback: drops every record whose window is over
Cleanup ==
  /\ rateLimit' = [k \in {x \in DOMAIN rateLimit :
                            ~(now > rateLimit[x].resetAt)} |-> rateLimit[k]]
  /\ UNCHANGED <<aggVars, cfgVars, mapVars, balVars, price, tokenVars, now, hookVars>>

\* time passes
Tick(t) ==
  /\ t > now
  /\ now' = t
  /\ UNCHANGED <<aggVars, cfgVars, mapVars, balVars, price, tokenVars,
                 rateLimit, hookVars>>

NextLimiter ==
  \/ \E q \in Requests : Middleware(q)
  \/ Cleanup
  \/ \E t \in ClockChoices : Tick(t)

SpecLimiter == Init /\ [][NextLimiter]_vars

\* ------------------------------------------------ chainhook events
\* src/stacks-boost-frontend/middleware.ts (chainhook store),
\* app/api/chainhooks/route.ts (POST) and src/unnamed/part_003 (GET): an
\* in-memory list of events, fed by the webhook and read by the feed.
\* A tx id is a positive number; 0 stands for a tx id that is undefined
\* or the empty string.
MAX_EVENTS == 50
DEFAULT_LIMIT == 10
MAX_LIMIT == 25
STATUS_OK == 200
STATUS_BAD_REQUEST == 400

\* the newest tx id the webhook is sent
MaxTxId == 52

\* `${STACKS_CONTRACT_ADDRESS}.${STACKS_CONTRACT_NAME}`
contractId == "SP.stackslend-v4"

\* store.events.unshift(event) with no cut at 50
AddChainhookEventUncapped(store, event) == <<event>> \o store

\* addChainhookEvent: the store it leaves
AddChainhookEvent(store, event) ==
  LET grown == <<event>> \o store
  IN  IF Len(grown) > MAX_EVENTS THEN SubSeq(grown, 1, MAX_EVENTS) ELSE grown

\* Array.prototype.slice(0, end) for an integer end
Slice(list, end) ==
  LET stop == IF end < 0
              THEN (IF Len(list) + end > 0 THEN Len(list) + end ELSE 0)
              ELSE (IF end < Len(list) THEN end ELSE Len(list))
  IN  SubSeq(list, 1, stop)

\* listChainhookEvents
ListChainhookEvents(limit) == Slice(events, limit)

\* The entries of payload.apply the webhook is sent, by what is wrong with
\* them: nothing, the entry is null, it has no transaction, the
\* transaction is not a contract call, it has no contract_call, the call
\* is to another contract, the tx id is missing, the function name is
\* missing.
ItemKinds ==
  { "stored", "null_item", "no_transaction", "token_transfer", "no_call",
    "other_contract", "no_tx_id", "no_function_name" }

ItemOf(kind, txId, index) ==
  [ isObject      |-> kind # "null_item",
    transaction   |-> kind # "no_transaction",
    tx_id         |-> IF kind = "no_tx_id" THEN 0 ELSE txId,
    tx_type       |-> IF kind = "token_transfer" THEN "token_transfer"
                      ELSE "contract_call",
    contract_call |-> kind # "no_call",
    contract_id   |-> IF kind = "other_contract" THEN "SP.other"
                      ELSE contractId,
    function_name |-> IF kind = "no_function_name" THEN NoValue
                      ELSE "deposit-stx",
    index         |-> index ]

\* the tx id of the newest stored event, 0 when the store is empty
NewestTxId == IF events = << >> THEN 0 ELSE Head(events).txId

\* The webhook is sent each transaction of the contract once, in chain
\* order: the entries that name the contract's call carry the tx ids that
\* follow the newest stored one, and an entry of another kind carries the
\* tx id the next such entry will.
TxIdAt(kinds, i) ==
  NewestTxId + 1 + Cardinality({j \in 1..(i - 1) : kinds[j] = "stored"})

\* each transaction is in a block of its own, numbered as the tx id
ApplyOf(kinds) ==
  [ i \in 1..Len(kinds) |->
      ItemOf(kinds[i], TxIdAt(kinds, i), TxIdAt(kinds, i)) ]

KindLists ==
  {<< >>} \cup {<<a>> : a \in ItemKinds}
          \cup {<<a, b>> : a \in ItemKinds, b \in ItemKinds}

\* a body that is not JSON (or is null), a body with no apply array, and
\* the bodies with an apply array
BodyUnparsable == [parsed |-> FALSE, isArray |-> FALSE, apply |-> << >>]
BodyNoApply == [parsed |-> TRUE, isArray |-> FALSE, apply |-> << >>]
BodyOf(kinds) == [parsed |-> TRUE, isArray |-> TRUE, apply |-> ApplyOf(kinds)]

\* the early returns of the forEach callback
ShouldStore(item) ==
  IF ~item.transaction \/ item.tx_type # "contract_call" THEN FALSE
  ELSE IF ~item.contract_call \/ item.contract_id # contractId THEN FALSE
  ELSE IF item.tx_id = 0 \/ item.function_name \in {NoValue, ""} THEN FALSE
  ELSE TRUE

\* the event POST builds of an entry at time t
EventOf(item, t) ==
  [ id           |-> <<item.tx_id, t>>,
    txId         |-> item.tx_id,
    functionName |-> item.function_name,
    contractId   |-> item.contract_id,
    blockHeight  |-> item.index,
    receivedAt   |-> t ]

\* applyList.forEach: reading .transaction of a null entry throws, which
\* ends the loop and keeps what the entries before it stored
RECURSIVE ForEachItem(_, _, _)
ForEachItem(store, items, t) ==
  IF items = << >> THEN store
  ELSE IF ~Head(items).isObject THEN store
  ELSE ForEachItem(IF ShouldStore(Head(items))
                   THEN AddChainhookEvent(store, EventOf(Head(items), t))
                   ELSE store,
                   Tail(items), t)

\* the try block throws
PostThrows(payload) ==
  \/ ~payload.parsed
  \/ \E i \in 1..Len(payload.apply) : ~payload.apply[i].isObject

PostResponse(payload) ==
  IF PostThrows(payload)
  THEN [route |-> "POST", ok |-> FALSE, status |-> STATUS_BAD_REQUEST,
        events |-> << >>]
  ELSE [route |-> "POST", ok |-> TRUE, status |-> STATUS_OK,
        events |-> << >>]

\* a webhook request arrives
Receive(payload) ==
  /\ inbox = << >>
  /\ inbox' = <<payload>>
  /\ UNCHANGED <<aggVars, cfgVars, mapVars, balVars, price, tokenVars,
                 limiterVars, events, response>>

\* POST /api/chainhooks
Post ==
  /\ inbox # << >>
  /\ LET payload == Head(inbox)
     IN  /\ events' = IF payload.parsed /\ payload.isArray
                      THEN ForEachItem(events, payload.apply, now)
                      ELSE events
         /\ response' = PostResponse(payload)
  /\ inbox' = Tail(inbox)
  /\ UNCHANGED <<aggVars, cfgVars, mapVars, balVars, price, tokenVars,
                 limiterVars>>

\* The limit query parameter: absent (null), or a string, character by
\* character.
LimitAbsent == <<"null">>
LimitParams ==
  { LimitAbsent, << >>, <<"a", "b", "c">>, <<"0">>, <<"1">>, <<"3">>,
    <<"2", "5">>, <<"3", "0">>, <<"-", "2">> }

Digits == {"0", "1", "2", "3", "4", "5", "6", "7", "8", "9"}
DigitValue(c) ==
  CASE c = "0" -> 0 [] c = "1" -> 1 [] c = "2" -> 2 [] c = "3" -> 3
    [] c = "4" -> 4 [] c = "5" -> 5 [] c = "6" -> 6 [] c = "7" -> 7
    [] c = "8" -> 8 [] c = "9" -> 9

RECURSIVE DigitsValue(_)
DigitsValue(s) ==
  IF s = << >> THEN 0
  ELSE 10 * DigitsValue(SubSeq(s, 1, Len(s) - 1)) + DigitValue(s[Len(s)])

IsDigits(s) == s # << >> /\ \A i \in 1..Len(s) : s[i] \in Digits

\* Number(text) of a decimal integer with an optional sign; NaN otherwise
NumberOf(text) ==
  IF IsDigits(text) THEN [finite |-> TRUE, value |-> DigitsValue(text)]
  ELSE IF text # << >> /\ Head(text) = "-" /\ IsDigits(Tail(text))
  THEN [finite |-> TRUE, value |-> 0 - DigitsValue(Tail(text))]
  ELSE [finite |-> FALSE, value |-> 0]

\* limitParam ? Number(limitParam) : 10
LimitOf(limitParam) ==
  IF limitParam = LimitAbsent \/ limitParam = << >>
  THEN [finite |-> TRUE, value |-> DEFAULT_LIMIT]
  ELSE NumberOf(limitParam)

\* Number.isFinite(limit) ? Math.min(Math.max(limit, 1), 25) : 10
SafeLimit(limitParam) ==
  LET limit == LimitOf(limitParam)
      atLeastOne == IF limit.value > 1 THEN limit.value ELSE 1
  IN  IF limit.finite
      THEN (IF atLeastOne < MAX_LIMIT THEN atLeastOne ELSE MAX_LIMIT)
      ELSE DEFAULT_LIMIT

\* GET /api/chainhooks/events
Get(limitParam) ==
  /\ response' = [route |-> "GET", ok |-> TRUE, status |-> STATUS_OK,
                  events |-> ListChainhookEvents(SafeLimit(limitParam))]
  /\ UNCHANGED <<aggVars, cfgVars, mapVars, balVars, price, tokenVars,
                 limiterVars, events, inbox>>

NextHook ==
  \/ \E body \in {BodyUnparsable, BodyNoApply} : Receive(body)
  \/ \E kinds \in KindLists :
       /\ NewestTxId + Len(kinds) <= MaxTxId
       /\ Receive(BodyOf(kinds))
  \/ Post
  \/ \E p \in LimitParams : Get(p)

SpecHook == Init /\ [][NextHook]_vars

\* =========================================================== claims
RECURSIVE SumAmounts(_, _)
SumAmounts(m, S) ==
  IF S = {} THEN 0
  ELSE LET k == CHOOSE x \in S : TRUE
       IN  m[k].amount + SumAmounts(m, S \ {k})

\* principal plus the per-account interest accrued since last-accrued
Owed(user) ==
  borrows[user].amount
    + CalculateInterest(borrows[user].amount, borrows[user].last_accrued)

RECURSIVE SumOwed(_)
SumOwed(S) ==
  IF S = {} THEN 0
  ELSE LET k == CHOOSE x \in S : TRUE
       IN  Owed(k) + SumOwed(S \ {k})

\* C1: in every reachable state the amounts of all deposit records add up
\* to total-stx-deposits.
C1_DepositsSumToTotal ==
  SumAmounts(deposits, DOMAIN deposits) = total_stx_deposits

C1_Witness ==
  /\ DOMAIN deposits = Wallets
  /\ deposits["wallet_1"].amount = 2
  /\ deposits["wallet_2"].amount = 1

\* C2: in every reachable state the amounts of all collateral records add
\* up to total-sbtc-collateral.
C2_CollateralSumsToTotal ==
  SumAmounts(collateral, DOMAIN collateral) = total_sbtc_collateral

\* Both wallets hold a collateral record after borrows that posted all of
\* wallet_2's sBTC: wallet_1 can only have obtained its sBTC by liquidating.
C2_Witness ==
  /\ DOMAIN collateral = Wallets
  /\ total_sbtc_collateral = 2
  /\ sbtc["wallet_2"] = 0

\* C3: in every reachable state the principals of all borrow records, each
\* with its per-account interest up to the current time, add up to at most
\* total-stx-borrows.
C3_OwedBoundedByTotal == SumOwed(DOMAIN borrows) <= total_stx_borrows

C3_Witness ==
  /\ DOMAIN borrows = Wallets
  /\ borrows["wallet_1"].amount >= 1
  /\ borrows["wallet_2"].amount >= 2

C5_NoUnderflow ==
  /\ \A u \in DOMAIN borrows : total_stx_borrows >= Owed(u)
  /\ \A u \in DOMAIN collateral :
       total_sbtc_collateral >= collateral[u].amount
  /\ \A c \in Wallets : RetOf(RepaySteps(c)).kind # "panic"
  /\ \A c \in Wallets, u \in Wallets :
       RetOf(LiquidateSteps(c, u)).kind # "panic"
  /\ \A c \in DOMAIN borrows :
       (~paused /\ stx[c] >= Owed(c)) => RetOf(RepaySteps(c)) = Ok

C5_Witness ==
  /\ DOMAIN borrows = Wallets
  /\ \E c \in Wallets :
       /\ total_stx_borrows > Owed(c)
       /\ stx[c] >= Owed(c)
       /\ RetOf(RepaySteps(c)) = Ok

\* The trace runs accrue-interest, and before any of its writes.
AccruesBeforeWrites(t) ==
  \E i \in 1..Len(t) :
    /\ t[i][2] = "accrue"
    /\ \A j \in 1..(i - 1) : t[j][2] # "write"

\* C6: every successful deposit, withdraw, borrow, repay and liquidate runs
\* the global accrual before it writes any record or aggregate.
C6_AccrualFirst ==
  /\ \A c \in Wallets, a \in AmountChoices :
       /\ Succeeds(DepositSteps(c, a))
            => AccruesBeforeWrites(TraceOf(DepositSteps(c, a)))
       /\ Succeeds(WithdrawSteps(c, a))
            => AccruesBeforeWrites(TraceOf(WithdrawSteps(c, a)))
       /\ \A k \in CollateralChoices :
            Succeeds(BorrowSteps(c, k, a))
              => AccruesBeforeWrites(TraceOf(BorrowSteps(c, k, a)))
  /\ \A c \in Wallets :
       /\ Succeeds(RepaySteps(c))
            => AccruesBeforeWrites(TraceOf(RepaySteps(c)))
       /\ \A u \in Wallets :
            Succeeds(LiquidateSteps(c, u))
              => AccruesBeforeWrites(TraceOf(LiquidateSteps(c, u)))

\* No write of the trace is followed by a check or a transfer.
WritesLast(t) ==
  \A i \in 1..Len(t), j \in 1..Len(t) :
    (i < j /\ t[i][2] = "write") => t[j][2] \notin {"check", "transfer"}

\* C8: within every operation every write to a record or an aggregate
\* comes after all of the operation's checks and transfers.
C8_WritesAfterChecks ==
  /\ \A c \in Wallets, a \in AmountChoices :
       /\ WritesLast(TraceOf(DepositSteps(c, a)))
       /\ WritesLast(TraceOf(WithdrawSteps(c, a)))
       /\ \A k \in CollateralChoices :
            WritesLast(TraceOf(BorrowSteps(c, k, a)))
  /\ \A c \in Wallets :
       /\ WritesLast(TraceOf(RepaySteps(c)))
       /\ \A u \in Wallets : WritesLast(TraceOf(LiquidateSteps(c, u)))

\* What the account owes before the call, 0 without a borrow record.
OwedOrZero(user) == IF Has(borrows, user) THEN Owed(user) ELSE 0

\* (owed + amount) <= (collateral + added) * price * ltv / 100, in integers
WithinBorrowLimit(c, k, a) ==
  (OwedOrZero(c) + a) * 100
    <= ((AmountOf(collateral, c) + k) * price) * ltv_percentage

\* The checks of borrow-stx that come before the limit pass.
BorrowReachesLimitCheck(c, k, a) ==
  /\ ~paused
  /\ a > 0
  /\ (k > 0 \/ AmountOf(collateral, c) > 0)
  /\ price > 0

\* C9: a borrow succeeds only within the loan-to-value limit; a request
\* that reaches the limit check fails with ERR_EXCEEDED_MAX_BORROW exactly
\* when it exceeds the limit, a request within it succeeds when the pool
\* and the caller hold the assets to move, and after a successful borrow
\* the recorded principal is within the limit at that price.
C9_BorrowLimit ==
  /\ [](\A c \in Wallets, k \in CollateralChoices, a \in AmountChoices :
          LET r == RetOf(BorrowSteps(c, k, a))
          IN  /\ r = Ok => WithinBorrowLimit(c, k, a)
              /\ BorrowReachesLimitCheck(c, k, a) =>
                   /\ ~WithinBorrowLimit(c, k, a)
                        <=> r = Err(ERR_EXCEEDED_MAX_BORROW)
                   /\ (/\ WithinBorrowLimit(c, k, a)
                       /\ stx[Pool] >= a
                       /\ sbtc[c] >= k) => r = Ok)
  /\ [][ \/ UNCHANGED vars
         \/ \A c \in Wallets, k \in CollateralChoices, a \in AmountChoices :
              (BorrowStx(c, k, a) /\ Succeeds(BorrowSteps(c, k, a))) =>
                borrows'[c].amount * 100
                  <= (collateral'[c].amount * price') * ltv_percentage'
       ]_vars

\* A position borrowed up to the limit (2 on collateral 1 at price 3 and
\* 70 percent): one more unit is refused.
C9_Witness ==
  \E c \in DOMAIN borrows :
    /\ ltv_percentage = 70
    /\ price = 3
    /\ AmountOf(collateral, c) = 1
    /\ borrows[c].amount = 2
    /\ RetOf(BorrowSteps(c, 0, 1)) = Err(ERR_EXCEEDED_MAX_BORROW)

\* owed * 100 >= collateral * price * threshold
PastThreshold(u) ==
  Owed(u) * 100
    >= (collateral[u].amount * price) * liquidation_threshold_percentage

\* what the liquidator pays
DiscountedOwed(u) ==
  (Owed(u) * (100 - liquidation_penalty_percentage)) \div 100

\* C10: liquidate succeeds only on a position at or past the threshold; a
\* target without a borrow or a collateral record, and a position below
\* the threshold, fail with ERR_CANNOT_BE_LIQUIDATED; a position at or past
\* it passes the test and is liquidated by a caller holding the payment.
C10_LiquidationThreshold ==
  \A c \in Wallets, u \in Wallets :
    LET r == RetOf(LiquidateSteps(c, u))
        open == Has(borrows, u) /\ Has(collateral, u)
    IN  /\ r = Ok => (open /\ PastThreshold(u))
        /\ ~open => r = Err(ERR_CANNOT_BE_LIQUIDATED)
        /\ (open /\ ~paused /\ price > 0) =>
             /\ ~PastThreshold(u) <=> r = Err(ERR_CANNOT_BE_LIQUIDATED)
             /\ (/\ PastThreshold(u)
                 /\ DiscountedOwed(u) > 0
                 /\ stx[c] >= DiscountedOwed(u)) => r = Ok

\* A position exactly at the threshold that a liquidator can close.
C10_Witness ==
  \E c \in Wallets, u \in DOMAIN borrows :
    /\ Has(collateral, u)
    /\ c # u
    /\ Owed(u) * 100
         = (collateral[u].amount * price) * liquidation_threshold_percentage
    /\ RetOf(LiquidateSteps(c, u)) = Ok

\* A position one unit of debt below the threshold, refused.
C10_BelowWitness ==
  \E c \in Wallets, u \in DOMAIN borrows :
    /\ Has(collateral, u)
    /\ (Owed(u) + 1) * 100
         = (collateral[u].amount * price) * liquidation_threshold_percentage
    /\ RetOf(LiquidateSteps(c, u)) = Err(ERR_CANNOT_BE_LIQUIDATED)

\* C11: while the oracle price is 0 no borrow and no liquidation succeeds;
\* on a pool that is not paused a borrow of a positive amount against some
\* collateral and a liquidation of an open position both return
\* ERR_INVALID_PRICE, and such a call leaves every record, aggregate and
\* balance as it was.
C11_ZeroPriceRejected ==
  /\ [](price = 0 =>
          /\ \A c \in Wallets, k \in CollateralChoices, a \in AmountChoices :
               LET r == RetOf(BorrowSteps(c, k, a))
               IN  /\ r # Ok
                   /\ (~paused /\ a > 0
                         /\ (k > 0 \/ AmountOf(collateral, c) > 0))
                        => r = Err(ERR_INVALID_PRICE)
          /\ \A c \in Wallets, u \in Wallets :
               LET r == RetOf(LiquidateSteps(c, u))
               IN  /\ r # Ok
                   /\ (~paused /\ Has(borrows, u) /\ Has(collateral, u))
                        => r = Err(ERR_INVALID_PRICE))
  /\ [][ \/ UNCHANGED vars
         \/ price # 0
         \/ \A c \in Wallets :
              /\ \A k \in CollateralChoices, a \in AmountChoices :
                   ~BorrowStx(c, k, a)
              /\ \A u \in Wallets : ~Liquidate(c, u)
       ]_vars

\* The price has dropped to 0 under an open position: its liquidation and
\* a further borrow against it are both refused for the price.
C11_Witness ==
  /\ price = 0
  /\ ~paused
  /\ \E c \in Wallets, u \in DOMAIN borrows :
       /\ Has(collateral, u)
       /\ RetOf(LiquidateSteps(c, u)) = Err(ERR_INVALID_PRICE)
       /\ RetOf(BorrowSteps(u, 0, 1)) = Err(ERR_INVALID_PRICE)

AccrualState ==
  [last_interest_accrual |-> last_interest_accrual,
   total_stx_borrows |-> total_stx_borrows,
   cumulative_yield_bips |-> cumulative_yield_bips]

C13_DepositWithdrawRoundTrip ==
  [][ \/ UNCHANGED vars
      \/ \A c \in Wallets, x \in AmountChoices :
           (DepositStx(c, x) /\ Succeeds(DepositSteps(c, x))) =>
             /\ Succeeds(WithdrawSteps(c, x))'
             /\ PendingYield(c, AccrueInterest.cumulative_yield_bips)' = 0
             /\ WithdrawPayout(c, x)' = x
             /\ Transfer(stx, WithdrawPayout(c, x), Pool, c)'[c] = stx[c]
             /\ WithdrawNewAmount(AmountOf(deposits, c), x)'
                  = AmountOf(deposits, c)
             /\ WithdrawNewTotal(total_stx_deposits, x)'
                  = total_stx_deposits
    ]_vars

\* An account has added 2 to a record of 1 while the pool has lent 1 out;
\* taking the 2 back succeeds and pays 2.
C13_Witness ==
  \E c \in DOMAIN deposits :
    /\ deposits[c].amount = 3
    /\ total_stx_borrows = 1
    /\ stx[Pool] = 2
    /\ Succeeds(WithdrawSteps(c, 2))
    /\ WithdrawPayout(c, 2) = 2

C17_SingleSlotDeposit ==
  \A c \in DOMAIN deposits, a \in AmountChoices :
    RetOf(DepositSteps(c, a)) # Ok

\* A deposit or a withdrawal the contract must refuse: a deposit of 0, a
\* withdrawal without a deposit record, of 0, or of more than the record.
InvalidDeposit(c, a) == a = 0
InvalidWithdraw(c, a) ==
  ~Has(deposits, c) \/ a = 0 \/ a > AmountOf(deposits, c)

\* C18: invalid deposit and withdraw requests are refused with their error
\* and change nothing.  On a pool that is not paused deposit-stx of 0
\* returns ERR_INVALID_DEPOSIT_AMOUNT, and withdraw-stx of 0 or of more
\* than the recorded amount returns ERR_INVALID_WITHDRAW_AMOUNT; withdraw-stx
\* by an account without a deposit record returns
\* ERR_INVALID_WITHDRAW_AMOUNT, paused or not; none of them succeeds in any
\* state, and no step of the pool is the step of such a call.
C18_InvalidRequestsRejected ==
  /\ [](\A c \in Wallets, a \in AmountChoices :
          /\ InvalidDeposit(c, a) =>
               /\ RetOf(DepositSteps(c, a)) # Ok
               /\ ~paused => RetOf(DepositSteps(c, a))
                               = Err(ERR_INVALID_DEPOSIT_AMOUNT)
          /\ InvalidWithdraw(c, a) =>
               /\ RetOf(WithdrawSteps(c, a)) # Ok
               /\ (~paused \/ ~Has(deposits, c))
                    => RetOf(WithdrawSteps(c, a))
                         = Err(ERR_INVALID_WITHDRAW_AMOUNT))
  /\ [][ \/ UNCHANGED vars
         \/ \A c \in Wallets, a \in AmountChoices :
              /\ InvalidDeposit(c, a) => ~DepositStx(c, a)
              /\ InvalidWithdraw(c, a) => ~WithdrawStx(c, a)
       ]_vars

\* wallet_1 holds a record of 1 and STX besides, wallet_2 holds no record,
\* the pool is not paused: all four invalid requests can be made here.
C18_Witness ==
  /\ ~paused
  /\ Has(deposits, "wallet_1")
  /\ deposits["wallet_1"].amount = 1
  /\ stx["wallet_1"] >= 2
  /\ ~Has(deposits, "wallet_2")
  /\ RetOf(DepositSteps("wallet_1", 0)) = Err(ERR_INVALID_DEPOSIT_AMOUNT)
  /\ RetOf(WithdrawSteps("wallet_2", 1)) = Err(ERR_INVALID_WITHDRAW_AMOUNT)
  /\ RetOf(WithdrawSteps("wallet_1", 0)) = Err(ERR_INVALID_WITHDRAW_AMOUNT)
  /\ RetOf(WithdrawSteps("wallet_1", 2)) = Err(ERR_INVALID_WITHDRAW_AMOUNT)

\* floor((index - checkpoint) * amount / 10000) on the record as it is
YieldDue(c, index) ==
  ((index - deposits[c].yield_index) * deposits[c].amount) \div 10000

PendingOf(c) == PendingYield(c, cumulative_yield_bips)

C20_RepayClosesPosition ==
  /\ [](\A c \in DOMAIN borrows :
          stx[c] < Owed(c) => RetOf(RepaySteps(c)) # Ok)
  /\ [][ \/ UNCHANGED vars
         \/ \A c \in Wallets :
              (Repay(c) /\ Succeeds(RepaySteps(c))) =>
                LET owed == Owed(c)
                    held == AmountOf(collateral, c)
                IN  /\ stx'[c] = stx[c] - owed
                    /\ stx'[Pool] = stx[Pool] + owed
                    /\ sbtc'[c] = sbtc[c] + held
                    /\ sbtc'[Pool] = sbtc[Pool] - held
                    /\ ~Has(borrows', c)
                    /\ ~Has(collateral', c)
                    /\ GetDebt(c)' = 0
                    /\ GetCollateral(c)' = 0
                    /\ total_stx_borrows' = total_stx_borrows - owed
                    /\ total_sbtc_collateral' = total_sbtc_collateral - held
       ]_vars

\* Both wallets have an open position; one of them owes 2 against a
\* collateral of 1, holds the 2 and can repay: the totals then exceed what
\* the repay takes off them.
C20_Witness ==
  /\ DOMAIN borrows = Wallets
  /\ DOMAIN collateral = Wallets
  /\ \E c \in Wallets :
       /\ Owed(c) = 2
       /\ collateral[c].amount = 1
       /\ stx[c] >= 2
       /\ total_stx_borrows > 2
       /\ total_sbtc_collateral > 1
       /\ RetOf(RepaySteps(c)) = Ok

\* The account has an open position: a borrow record.
Open(c) == Has(borrows, c)

\* C21: an account's position goes NoPosition -> Open -> NoPosition.  A
\* position opens only in a successful borrow-stx of the account, and
\* every successful borrow-stx leaves it open; it closes only in a
\* successful repay of the account or a successful liquidate of it, and
\* each of them closes it; an open position has its collateral record;
\* without a position repay fails with ERR_INVALID_WITHDRAW_AMOUNT and
\* liquidate with ERR_CANNOT_BE_LIQUIDATED.
C21_PositionStateMachine ==
  /\ [](\A c \in Wallets :
          /\ Open(c) <=> Has(collateral, c)
          /\ ~Open(c) =>
               /\ RetOf(RepaySteps(c)) = Err(ERR_INVALID_WITHDRAW_AMOUNT)
               /\ \A l \in Wallets :
                    RetOf(LiquidateSteps(l, c))
                      = Err(ERR_CANNOT_BE_LIQUIDATED))
  /\ [][ \/ UNCHANGED vars
         \/ \A c \in Wallets :
              /\ (~Open(c) /\ Open(c)') =>
                   \E k \in CollateralChoices, a \in AmountChoices :
                     BorrowStx(c, k, a) /\ Succeeds(BorrowSteps(c, k, a))
              /\ (Open(c) /\ ~Open(c)') =>
                   \/ Repay(c) /\ Succeeds(RepaySteps(c))
                   \/ \E l \in Wallets :
                        Liquidate(l, c) /\ Succeeds(LiquidateSteps(l, c))
              /\ \A k \in CollateralChoices, a \in AmountChoices :
                   (BorrowStx(c, k, a) /\ Succeeds(BorrowSteps(c, k, a)))
                     => Open(c)'
              /\ (Repay(c) /\ Succeeds(RepaySteps(c))) => ~Open(c)'
              /\ \A l \in Wallets :
                   (Liquidate(l, c) /\ Succeeds(LiquidateSteps(l, c)))
                     => ~Open(c)'
       ]_vars

\* wallet_1 has a position, opened on sBTC it can only have taken by
\* liquidating wallet_2's; wallet_2 is back at NoPosition, where its repay
\* and a liquidation of it are refused.
C21_Witness ==
  /\ Open("wallet_1")
  /\ ~Open("wallet_2")
  /\ RetOf(RepaySteps("wallet_2")) = Err(ERR_INVALID_WITHDRAW_AMOUNT)
  /\ RetOf(LiquidateSteps("wallet_1", "wallet_2"))
       = Err(ERR_CANNOT_BE_LIQUIDATED)

\* C22: a successful liquidate takes floor(owed * (100 - penalty) / 100)
\* STX from the caller, hands the caller the target's whole collateral,
\* deletes the target's borrow and collateral records, and takes the full
\* owed amount off total-stx-borrows and the collateral off
\* total-sbtc-collateral.
C22_LiquidateEffects ==
  [][ \/ UNCHANGED vars
      \/ \A l \in Wallets, u \in Wallets :
           (Liquidate(l, u) /\ Succeeds(LiquidateSteps(l, u))) =>
             LET owed == Owed(u)
                 held == collateral[u].amount
                 paid == (owed * (100 - liquidation_penalty_percentage))
                           \div 100
             IN  /\ stx'[l] = stx[l] - paid
                 /\ stx'[Pool] = stx[Pool] + paid
                 /\ sbtc'[l] = sbtc[l] + held
                 /\ sbtc'[Pool] = sbtc[Pool] - held
                 /\ ~Has(borrows', u)
                 /\ ~Has(collateral', u)
                 /\ total_stx_borrows' = total_stx_borrows - owed
                 /\ total_sbtc_collateral' = total_sbtc_collateral - held
    ]_vars

\* wallet_1 holds sBTC, which it can only have taken in a liquidation, and
\* the pool's STX with the STX lent out fall short of the deposits: a
\* liquidator has paid less than the debt that was written off.
C22_Witness ==
  /\ sbtc["wallet_1"] >= 1
  /\ stx[Pool] + total_stx_borrows < total_stx_deposits

\* C23: a successful borrow-stx sets the account's principal to what it
\* owed plus the amount borrowed and its last-accrued to the current time,
\* adds the collateral posted to its collateral record and to
\* total-sbtc-collateral, adds the amount borrowed, and nothing else, to
\* total-stx-borrows, and moves the two assets; a request within the
\* borrow limit fails with ERR_INSUFFICIENT_LIQUIDITY when the pool holds
\* less than the amount, and no borrow succeeds then.
C23_BorrowEffects ==
  /\ [](\A c \in Wallets, k \in CollateralChoices, a \in AmountChoices :
          LET r == RetOf(BorrowSteps(c, k, a))
          IN  /\ r = Ok => stx[Pool] >= a
              /\ (/\ BorrowReachesLimitCheck(c, k, a)
                  /\ WithinBorrowLimit(c, k, a)
                  /\ stx[Pool] < a) => r = Err(ERR_INSUFFICIENT_LIQUIDITY))
  /\ [][ \/ UNCHANGED vars
         \/ \A c \in Wallets, k \in CollateralChoices, a \in AmountChoices :
              (BorrowStx(c, k, a) /\ Succeeds(BorrowSteps(c, k, a))) =>
                /\ borrows'[c] = [amount |-> OwedOrZero(c) + a,
                                  last_accrued |-> GetCurrentTime]
                /\ collateral'[c] =
                     [amount |-> AmountOf(collateral, c) + k]
                /\ total_sbtc_collateral' = total_sbtc_collateral + k
                /\ total_stx_borrows' = total_stx_borrows + a
                /\ stx'[c] = stx[c] + a
                /\ stx'[Pool] = stx[Pool] - a
                /\ sbtc'[c] = sbtc[c] - k
                /\ sbtc'[Pool] = sbtc[Pool] + k
       ]_vars

\* wallet_2 owes 3 on a collateral of 2, which took more than one borrow
\* (a borrow is of at most 2 on at most 1 of collateral); the pool is
\* empty, and one more unit, within the limit, is refused for liquidity.
C23_Witness ==
  /\ Has(borrows, "wallet_2")
  /\ borrows["wallet_2"].amount = 3
  /\ collateral["wallet_2"].amount = 2
  /\ total_stx_borrows = 3
  /\ stx[Pool] = 0
  /\ RetOf(BorrowSteps("wallet_2", 0, 1)) = Err(ERR_INSUFFICIENT_LIQUIDITY)

\* C24: an admin function called by anyone but the admin in office returns
\* ERR_UNAUTHORIZED, set-params also when its values are out of bounds,
\* and no step that changes the state is the step of such a call.
C24_NonAdminRejected ==
  /\ [](\A c \in Callers :
          c # admin =>
            /\ RetOf(SetPausedSteps(c)) = Err(ERR_UNAUTHORIZED)
            /\ RetOf(SetAdminSteps(c)) = Err(ERR_UNAUTHORIZED)
            /\ RetOf(SetSbtcTokenSteps(c)) = Err(ERR_UNAUTHORIZED)
            /\ \A p \in ParamCandidates :
                 RetOf(SetParamsSteps(c, p[1], p[2], p[3], p[4]))
                   = Err(ERR_UNAUTHORIZED))
  /\ [][ \/ UNCHANGED vars
         \/ \A c \in Callers :
              c # admin =>
                /\ \A b \in BOOLEAN : ~SetPaused(c, b)
                /\ \A n \in AdminCandidates : ~SetAdmin(c, n)
                /\ \A t \in TokenCandidates : ~SetSbtcToken(c, t)
                /\ \A p \in ParamCandidates :
                     ~SetParams(c, p[1], p[2], p[3], p[4])
       ]_vars

\* The admin has been handed to wallet_1, which has since changed the
\* parameters: the deployer's calls are now the refused ones, its
\* out-of-bound set-params included.
C24_Witness ==
  /\ admin = "wallet_1"
  /\ ltv_percentage = 90
  /\ RetOf(SetPausedSteps(DEFAULT_ADMIN)) = Err(ERR_UNAUTHORIZED)
  /\ RetOf(SetParamsSteps(DEFAULT_ADMIN, 91, 101, 151, 31))
       = Err(ERR_UNAUTHORIZED)

\* One of the four values is above its bound.
OutOfBounds(p) == p[1] > 90 \/ p[2] > 100 \/ p[3] > 150 \/ p[4] > 30

\* C25: the risk parameters stay within their bounds (loan-to-value 90,
\* interest rate 100, liquidation threshold 150, penalty 30 percent):
\* set-params with a value out of bounds returns ERR_INVALID_LIQUIDATION
\* to the admin, and no step that changes the state is such a call.
C25_ParamsWithinBounds ==
  /\ [](/\ ltv_percentage <= 90
        /\ interest_rate_percentage <= 100
        /\ liquidation_threshold_percentage <= 150
        /\ liquidation_penalty_percentage <= 30
        /\ \A p \in ParamCandidates :
             OutOfBounds(p) =>
               RetOf(SetParamsSteps(admin, p[1], p[2], p[3], p[4]))
                 = Err(ERR_INVALID_LIQUIDATION))
  /\ [][ \/ UNCHANGED vars
         \/ \A c \in Callers, p \in ParamCandidates :
              OutOfBounds(p) => ~SetParams(c, p[1], p[2], p[3], p[4])
       ]_vars

\* All four parameters have been set to their bounds; a penalty of 31 with
\* the other three in bounds is refused.
C25_Witness ==
  /\ ltv_percentage = 90
  /\ interest_rate_percentage = 100
  /\ liquidation_threshold_percentage = 150
  /\ liquidation_penalty_percentage = 30
  /\ RetOf(SetParamsSteps(admin, 70, 10, 100, 31))
       = Err(ERR_INVALID_LIQUIDATION)

\* C26: while the pool is paused deposit-stx and borrow-stx return
\* ERR_PAUSED and withdraw-stx, repay and liquidate are refused as well
\* (with ERR_PAUSED once their records are found); no step taken from a
\* paused state changes a record, an aggregate or a balance.
C26_PausedFreezesLedger ==
  /\ [](paused =>
          /\ \A c \in Wallets, a \in AmountChoices :
               /\ RetOf(DepositSteps(c, a)) = Err(ERR_PAUSED)
               /\ \A k \in CollateralChoices :
                    RetOf(BorrowSteps(c, k, a)) = Err(ERR_PAUSED)
               /\ RetOf(WithdrawSteps(c, a)) # Ok
               /\ Has(deposits, c)
                    => RetOf(WithdrawSteps(c, a)) = Err(ERR_PAUSED)
          /\ \A c \in Wallets :
               /\ RetOf(RepaySteps(c)) # Ok
               /\ Has(borrows, c) => RetOf(RepaySteps(c)) = Err(ERR_PAUSED)
               /\ \A l \in Wallets :
                    /\ RetOf(LiquidateSteps(l, c)) # Ok
                    /\ (Has(borrows, c) /\ Has(collateral, c))
                         => RetOf(LiquidateSteps(l, c)) = Err(ERR_PAUSED))
  /\ [][paused => UNCHANGED <<aggVars, mapVars, balVars>>]_vars

\* The pool is paused over a deposit and a position that is past the
\* liquidation threshold and whose owner holds what it owes.
C26_Witness ==
  /\ paused
  /\ \E d \in DOMAIN deposits : stx[Pool] >= deposits[d].amount
  /\ \E c \in DOMAIN borrows :
       /\ stx[c] >= Owed(c)
       /\ price > 0
       /\ PastThreshold(c)
       /\ RetOf(RepaySteps(c)) = Err(ERR_PAUSED)
       /\ RetOf(LiquidateSteps(c, c)) = Err(ERR_PAUSED)

\* C27: in the collateral token a mint goes through only for the token
\* admin and a burn only for the owner of the balance burned; a mint by
\* anyone else and a burn of another account's tokens return
\* (err u100), and leave every balance and the supply as they were.
C27_MintBurnAuthorised ==
  /\ [](\A c \in TokenCallers, a \in TokenAmountChoices, r \in TokenHolders :
          /\ Succeeds(MintSteps(c, a, r)) => c = token_admin
          /\ c # token_admin =>
               RetOf(MintSteps(c, a, r)) = Err(TOKEN_ERR_UNAUTHORIZED)
          /\ Succeeds(BurnSteps(c, a, r)) => c = r
          /\ c # r => RetOf(BurnSteps(c, a, r)) = Err(TOKEN_ERR_UNAUTHORIZED))
  /\ [][ \/ UNCHANGED vars
         \/ \A c \in TokenCallers, a \in TokenAmountChoices,
               r \in TokenHolders :
              /\ (c # token_admin /\ Mint(c, a, r))
                   => UNCHANGED <<sbtc, sbtc_supply>>
              /\ (c # r /\ Burn(c, a, r))
                   => UNCHANGED <<sbtc, sbtc_supply>> ]_vars

\* The admin has handed the token to wallet_1, which minted 100 to
\* wallet_2, and wallet_2 burned 25 of them; the deployer is refused a
\* mint and wallet_1 a burn of wallet_2's tokens.
C27_Witness ==
  /\ token_admin = "wallet_1"
  /\ sbtc["wallet_2"] = 75
  /\ sbtc_supply = 75
  /\ RetOf(MintSteps(Deployer, 25, "wallet_2")) = Err(TOKEN_ERR_UNAUTHORIZED)
  /\ RetOf(BurnSteps("wallet_1", 25, "wallet_2"))
       = Err(TOKEN_ERR_UNAUTHORIZED)
  /\ Succeeds(MintSteps("wallet_1", 25, "wallet_2"))
  /\ Succeeds(BurnSteps("wallet_2", 25, "wallet_2"))

RECURSIVE SumBalances(_, _)
SumBalances(bal, S) ==
  IF S = {} THEN 0
  ELSE LET p == CHOOSE x \in S : TRUE
       IN  bal[p] + SumBalances(bal, S \ {p})

\* C28: a transfer of the collateral token goes through only when the
\* caller is the sender; it takes exactly the amount from the sender's
\* balance, adds exactly the amount to the recipient's, and leaves every
\* other balance and the supply as they were.  A mint adds the amount to
\* the recipient and to the supply.  After any sequence of mint, transfer
\* and burn the balances sum to the supply.  (Mint 100 to wallet_1, then
\* transfer 25 to wallet_2: balances 75 and 25.)
C28_TransferConservesSupply ==
  /\ [](SumBalances(sbtc, Principals) = GetTotalSupply)
  /\ [](\A c \in TokenCallers, a \in TokenAmountChoices,
           s \in TokenHolders, r \in TokenHolders :
          Succeeds(TokenTransferSteps(c, a, s, r)) => c = s)
  /\ [][ \/ UNCHANGED vars
         \/ /\ \A c \in TokenCallers, a \in TokenAmountChoices,
                  s \in TokenHolders, r \in TokenHolders :
                 (/\ Succeeds(TokenTransferSteps(c, a, s, r))
                  /\ TokenTransfer(c, a, s, r))
                   => /\ GetBalance(s)' = GetBalance(s) - a
                      /\ GetBalance(r)' = GetBalance(r) + a
                      /\ \A p \in Principals \ {s, r} :
                           GetBalance(p)' = GetBalance(p)
                      /\ GetTotalSupply' = GetTotalSupply
            /\ \A c \in TokenCallers, a \in TokenAmountChoices,
                  r \in TokenHolders :
                 (/\ Succeeds(MintSteps(c, a, r))
                  /\ Mint(c, a, r))
                   => /\ GetBalance(r)' = GetBalance(r) + a
                      /\ \A p \in Principals \ {r} :
                           GetBalance(p)' = GetBalance(p)
                      /\ GetTotalSupply' = GetTotalSupply + a ]_vars

\* 100 minted to wallet_1, 25 of them transferred to wallet_2.
C28_Witness ==
  /\ GetBalance("wallet_1") = 75
  /\ GetBalance("wallet_2") = 25
  /\ GetTotalSupply = 100

\* C29: every record of the limiter counts between 1 and MAX_REQUESTS
\* requests.  A request to a path under /api/ whose key has a record with
\* MAX_REQUESTS requests counted, at or before its resetAt, is answered
\* with status 429 and changes nothing; any other request is passed on.
\* A request under /api/ passed on adds one to the count of its key and
\* leaves resetAt, within the window; with no record, or after resetAt,
\* it sets the record to count 1 and resetAt = now + RATE_LIMIT_WINDOW.
\* The records of the other keys stay as they were, and a request to a
\* path not under /api/ changes no record.
C29_RateLimit ==
  /\ [](\A k \in DOMAIN rateLimit : rateLimit[k].count \in 1..MAX_REQUESTS)
  /\ [](\A q \in Requests :
          LET k == GetRateLimitKey(q)
              full == /\ Has(rateLimit, k)
                      /\ now <= rateLimit[k].resetAt
                      /\ rateLimit[k].count >= MAX_REQUESTS
          IN  /\ (IsApiPath(q) /\ full)
                   => MiddlewareResponse(q).status = STATUS_TOO_MANY_REQUESTS
              /\ (~IsApiPath(q) \/ ~full)
                   => MiddlewareResponse(q) = ResponseNext)
  /\ [][ \/ UNCHANGED vars
         \/ \A q \in Requests :
              Middleware(q) =>
                LET k == GetRateLimitKey(q)
                    fresh == \/ ~Has(rateLimit, k)
                             \/ now > rateLimit[k].resetAt
                IN  /\ \A o \in {"10.0.0.1", "unknown"} \ {k} :
                         /\ Has(rateLimit, o)' = Has(rateLimit, o)
                         /\ Has(rateLimit, o) => rateLimit'[o] = rateLimit[o]
                    /\ ~IsApiPath(q) => rateLimit' = rateLimit
                    /\ (IsApiPath(q) /\ fresh)
                         => rateLimit'[k] =
                              [count |-> 1,
                               resetAt |-> now + RATE_LIMIT_WINDOW]
                    /\ (IsApiPath(q) /\ ~fresh
                          /\ MiddlewareResponse(q) = ResponseNext)
                         => rateLimit'[k] =
                              [count |-> rateLimit[k].count + 1,
                               resetAt |-> rateLimit[k].resetAt]
                    /\ (IsApiPath(q) /\ ~fresh
                          /\ MiddlewareResponse(q) # ResponseNext)
                         => rateLimit' = rateLimit ]_vars

\* In its second window the key 10.0.0.1 has had MAX_REQUESTS requests
\* passed on and the next is answered 429, while a request without an
\* address, counted once, is passed on.
C29_Witness ==
  /\ now = RATE_LIMIT_WINDOW + 1
  /\ Has(rateLimit, "10.0.0.1") /\ Has(rateLimit, "unknown")
  /\ rateLimit["10.0.0.1"] =
       [count |-> MAX_REQUESTS, resetAt |-> 2 * RATE_LIMIT_WINDOW + 1]
  /\ rateLimit["unknown"].count = 1
  /\ MiddlewareResponse([ip |-> "10.0.0.1", forwarded |-> NoValue,
                         path |-> <<"/", "a", "p", "i", "/", "x">>])
       = ResponseLimited
  /\ MiddlewareResponse([ip |-> NoValue, forwarded |-> NoValue,
                         path |-> <<"/", "a", "p", "i", "/", "x">>])
       = ResponseNext

\* C30: whenever no borrow record exists, the pool holds at least
\* total-stx-deposits in STX.
C30_PoolCoversDeposits ==
  (DOMAIN borrows = {}) => stx[Pool] >= total_stx_deposits

\* C31: whenever no borrow record exists, total-stx-borrows is 0: repay
\* and liquidate take off the aggregate all that the closed position owed.
C31_NoResidualDebt ==
  (DOMAIN borrows = {}) => total_stx_borrows = 0

\* A position has been opened and liquidated (wallet_1 holds the sBTC it
\* seized) and no debt is left, on record or in the aggregate.
C31_Witness ==
  /\ DOMAIN borrows = {}
  /\ sbtc["wallet_1"] >= 1
  /\ total_stx_borrows = 0

RECURSIVE SumPending(_)
SumPending(S) ==
  IF S = {} THEN 0
  ELSE LET k == CHOOSE x \in S : TRUE
       IN  PendingOf(k) + SumPending(S \ {k})

\* What the wallets have been paid beyond their own money: they hold, in
\* STX and in deposit records, InitStx and what was borrowed, plus the
\* yield paid out.
YieldPaid ==
  (stx["wallet_1"] + stx["wallet_2"] + SumAmounts(deposits, DOMAIN deposits))
    - (InitStx + SumAmounts(borrows, DOMAIN borrows))

\* The interest accrue-interest has added to total-stx-borrows.
InterestAccrued == total_stx_borrows - SumAmounts(borrows, DOMAIN borrows)

C33_FreshPositionSafe ==
  [][ \/ UNCHANGED vars
      \/ \A c \in Wallets, k \in CollateralChoices, a \in AmountChoices :
           (/\ Succeeds(BorrowSteps(c, k, a))
            /\ BorrowStx(c, k, a))
             => \A l \in Wallets :
                  RetOf(LiquidateSteps(l, c))'
                    = Err(ERR_CANNOT_BE_LIQUIDATED) ]_vars

\* C34: liquidate does not succeed when the caller is the account
\* liquidated.
C34_NoSelfLiquidation ==
  \A c \in Wallets : ~Succeeds(LiquidateSteps(c, c))

\* C35: an account has a borrow record exactly when it has a collateral
\* record, and the amounts of both are above 0.
C35_BorrowIffCollateral ==
  /\ DOMAIN borrows = DOMAIN collateral
  /\ \A c \in DOMAIN borrows :
       borrows[c].amount > 0 /\ collateral[c].amount > 0

\* Both wallets hold a position, one of them extended by a second borrow
\* without further collateral.
C35_Witness ==
  /\ DOMAIN borrows = Wallets
  /\ \E c \in Wallets :
       borrows[c].amount = 2 /\ collateral[c].amount = 1

\* C36: get-current-time is u0, so in every reachable state of the program
\* last-interest-accrual and cumulative-yield-bips are 0, calculate-interest
\* is 0 for every borrow record, get-debt is the recorded principal, repay
\* takes the principal, every pending yield is 0 and withdraw-stx pays the
\* amount withdrawn.
C36_NoInterestEver ==
  /\ last_interest_accrual = 0
  /\ cumulative_yield_bips = 0
  /\ \A c \in DOMAIN borrows :
       /\ borrows[c].last_accrued = 0
       /\ CalculateInterest(borrows[c].amount, borrows[c].last_accrued) = 0
       /\ GetDebt(c) = borrows[c].amount
       /\ TotalOwed(c) = borrows[c].amount
  /\ \A c \in Wallets :
       /\ PendingYield(c, cumulative_yield_bips) = 0
       /\ \A a \in AmountChoices : WithdrawPayout(c, a) = a

\* wallet_1 has a deposit record, wallet_2 a borrow record, after a
\* liquidation earlier on: deposit-stx, borrow-stx and liquidate have run
\* accrue-interest and calculate-interest.
C36_Witness ==
  /\ Has(deposits, "wallet_1")
  /\ Has(borrows, "wallet_2")
  /\ sbtc["wallet_1"] >= 1
  /\ GetDebt("wallet_2") = 1

riskVars == <<ltv_percentage, interest_rate_percentage,
              liquidation_threshold_percentage,
              liquidation_penalty_percentage>>
ledgerVars == <<aggVars, mapVars, balVars, price, tokenVars>>

\* C38: a successful admin function writes its own field and nothing
\* else.  A step that changes paused changes nothing but paused, a step
\* that changes admin nothing but admin, a step that changes a risk
\* parameter nothing but the four risk parameters, a step that changes
\* sbtc-token nothing but sbtc-token: no record, no total, not the index
\* and not the last accrual time.  A successful set-paused, set-admin,
\* set-params and set-sbtc-token store the values passed.  Once set-admin
\* has handed the role to another principal, that principal alone passes
\* the admin test and the former admin gets ERR_UNAUTHORIZED.
C38_AdminFrame ==
  [][ \/ UNCHANGED vars
      \/ /\ (paused' # paused)
              => UNCHANGED <<ledgerVars, admin, riskVars, sbtc_token>>
         /\ (admin' # admin)
              => /\ UNCHANGED <<ledgerVars, paused, riskVars, sbtc_token>>
                 /\ \A c \in Callers :
                      c = admin' => Succeeds(SetAdminSteps(c))'
                 /\ \A c \in Callers \ {admin'} :
                      /\ RetOf(SetPausedSteps(c))' = Err(ERR_UNAUTHORIZED)
                      /\ RetOf(SetAdminSteps(c))' = Err(ERR_UNAUTHORIZED)
                      /\ RetOf(SetSbtcTokenSteps(c))' = Err(ERR_UNAUTHORIZED)
                      /\ \A p \in ParamCandidates :
                           RetOf(SetParamsSteps(c, p[1], p[2], p[3], p[4]))'
                             = Err(ERR_UNAUTHORIZED)
         /\ (riskVars' # riskVars)
              => UNCHANGED <<ledgerVars, admin, paused, sbtc_token>>
         /\ (sbtc_token' # sbtc_token)
              => UNCHANGED <<ledgerVars, admin, paused, riskVars>>
         /\ \A c \in Callers :
              /\ \A b \in BOOLEAN :
                   (Succeeds(SetPausedSteps(c)) /\ SetPaused(c, b))
                     => paused' = b
              /\ \A n \in AdminCandidates :
                   (Succeeds(SetAdminSteps(c)) /\ SetAdmin(c, n))
                     => admin' = n
              /\ \A t \in TokenCandidates :
                   (Succeeds(SetSbtcTokenSteps(c)) /\ SetSbtcToken(c, t))
                     => sbtc_token' = t
              /\ \A p \in ParamCandidates :
                   (/\ Succeeds(SetParamsSteps(c, p[1], p[2], p[3], p[4]))
                    /\ SetParams(c, p[1], p[2], p[3], p[4]))
                     => riskVars' = <<p[1], p[2], p[3], p[4]>> ]_vars

\* The pool has been paused, handed to wallet_2, given other parameters
\* and another token, all with wallet_1's deposit record in place.
C38_Witness ==
  /\ admin = "wallet_2"
  /\ paused
  /\ sbtc_token = "other-sbtc-token"
  /\ riskVars = <<90, 100, 150, 30>>
  /\ Has(deposits, "wallet_1")
  /\ deposits["wallet_1"].amount = 2
  /\ total_stx_deposits = 2
  /\ RetOf(SetPausedSteps(DEFAULT_ADMIN)) = Err(ERR_UNAUTHORIZED)


\* the entries of a webhook body that name an applied call of the
\* configured contract with a tx id and a function name
Qualifies(item) ==
  /\ item.isObject /\ item.transaction /\ item.contract_call
  /\ item.tx_type = "contract_call"
  /\ item.contract_id = contractId
  /\ item.tx_id # 0
  /\ item.function_name \notin {NoValue, ""}

\* C39: the chainhook store never holds more than 50 events; it holds
\* them newest first, and what it has dropped are the oldest ones (the
\* tx ids, which arrive in increasing order, go down by one from the head,
\* and reach the first one while the store is not full);
\* listChainhookEvents(limit) is the first `limit` events of the store,
\* all of them when there are fewer, and the feed answers with such a
\* prefix; the store changes only when the webhook handles a request, and
\* every event it then gains comes from an entry of the request's apply
\* list that is a contract_call to the configured contract with a tx id
\* and a function name.
C39_EventStore ==
  /\ [](Len(events) <= MAX_EVENTS)
  /\ [](\A i \in 1..Len(events) : \A j \in 1..Len(events) :
          i < j => events[i].txId > events[j].txId)
  /\ [](\A i \in 1..(Len(events) - 1) :
          events[i].txId = events[i + 1].txId + 1)
  /\ [](events # << >> /\ Len(events) < MAX_EVENTS
          => events[Len(events)].txId = 1)
  /\ [](\A limit \in 0..(MAX_EVENTS + 1) :
          LET listed == ListChainhookEvents(limit)
          IN  /\ Len(listed) = IF limit < Len(events) THEN limit
                               ELSE Len(events)
              /\ \A i \in 1..Len(listed) : listed[i] = events[i])
  /\ [](\A i \in 1..Len(events) :
          /\ events[i].contractId = contractId
          /\ events[i].txId # 0
          /\ events[i].functionName \notin {NoValue, ""})
  /\ [][ \/ UNCHANGED vars
         \/ /\ response'.route = "GET"
              => /\ Len(response'.events) <= Len(events)
                 /\ Len(response'.events) <= MAX_LIMIT
                 /\ events # << >> => response'.events # << >>
                 /\ \A i \in 1..Len(response'.events) :
                      response'.events[i] = events[i]
            /\ events' # events
              => /\ inbox # << >>
                 /\ inbox' = << >>
                 /\ \A i \in 1..Len(events') :
                      events'[i].txId > NewestTxId
                        => \E k \in 1..Len(Head(inbox).apply) :
                             LET item == Head(inbox).apply[k]
                             IN  /\ Qualifies(item)
                                 /\ events'[i].txId = item.tx_id
                                 /\ events'[i].functionName
                                      = item.function_name
                                 /\ events'[i].contractId = item.contract_id
                                 /\ events'[i].blockHeight = item.index
                 /\ \A i \in 1..Len(events') :
                      events'[i].txId <= NewestTxId
                        => \E j \in 1..Len(events) : events'[i] = events[j] ]_vars

\* the 51st and the 52nd event have arrived and pushed the two oldest
\* out of a full store, and the feed has answered with its 25 newest
C39_Witness ==
  /\ Len(events) = MAX_EVENTS
  /\ events[1].txId = MAX_EVENTS + 2
  /\ events[MAX_EVENTS].txId = 3
  /\ response.route = "GET"
  /\ Len(response.events) = MAX_LIMIT
  /\ response.events[1].txId = MAX_EVENTS + 2

====
